---------------------------- MODULE Spec2Model ----------------------------
(***************************************************************************)
(* The accountability engine of orozcojd/Accountability: the influence     *)
(* analyzer, the promise analyzer, the red-flag detector and the           *)
(* accountability aggregator (backend/app/services), and the request       *)
(* handler that chains them (backend/app/api/officials.py).                *)
(*                                                                         *)
(* Numbers are exact rationals <<n, d>> in lowest terms (Python floats     *)
(* without their representation error); text is a sequence of one-letter   *)
(* strings, so that lower(), split() and the substring test `kw in text`   *)
(* are computed, not assumed.  A Python dict is a record whose missing     *)
(* keys hold Absent; None is a value of its own.                           *)
(***************************************************************************)
EXTENDS Integers, Sequences, FiniteSets, TLC

(***************************************************************************)
(* Python values                                                           *)
(***************************************************************************)
None == [tag |-> "None"]
Absent == [tag |-> "Absent"]
Str(s) == [tag |-> "str", s |-> s]
AttributeError == [tag |-> "Raised", exc |-> "AttributeError"]
UpstreamError == [tag |-> "Raised", exc |-> "UpstreamError"]

IsRaised(x) == x.tag = "Raised"
IsDict(x) == x.tag = "dict"
\* d.get(k, default) once the key's slot v is read: the default only for a missing key
Get(v, default) == IF v = Absent THEN default ELSE v
\* d.get(k, default) on a record that has the keys it was built with
Field(r, k, default) == IF k \in DOMAIN r THEN r[k] ELSE default
\* Python truthiness of an optional string: None, a missing key and "" are falsy
Truthy(v) == v.tag = "str" /\ v.s # <<>>

(***************************************************************************)
(* Sequences                                                               *)
(***************************************************************************)
RECURSIVE SumSeq(_)
SumSeq(s) == IF s = <<>> THEN 0 ELSE Head(s) + SumSeq(Tail(s))

RECURSIVE Concat(_)
Concat(ss) == IF ss = <<>> THEN <<>> ELSE Head(ss) \o Concat(Tail(ss))

\* s[:n]
Take(s, n) == SubSeq(s, 1, IF Len(s) < n THEN Len(s) ELSE n)

RECURSIVE SelectIdx(_, _, _)
\* the indices i of 1..n, ascending, with keep[i]
SelectIdx(keep, i, n) ==
    IF i > n THEN <<>>
    ELSE (IF keep[i] THEN <<i>> ELSE <<>>) \o SelectIdx(keep, i + 1, n)

\* all sequences over S of length at most n
SeqsUpTo(S, n) == UNION {[1..k -> S] : k \in 0..n}

\* the list whose items are f[1], f[2], ..., as a value computed once
List(f) == f \o <<>>

\* a local variable of the code: value is computed once, and Body is the code that follows
\* the assignment, with the variable standing for that value
Bind(value, Body(_)) == Body(value)

(***************************************************************************)
(* Exact rational arithmetic                                               *)
(***************************************************************************)
Abs(n) == IF n < 0 THEN -n ELSE n

RECURSIVE GCD(_, _)
GCD(a, b) == IF b = 0 THEN a ELSE GCD(b, a % b)

\* n/d in lowest terms, d > 0
Rat(n, d) ==
    LET g == GCD(Abs(n), Abs(d))
        s == IF d < 0 THEN -1 ELSE 1
    IN  <<(s * n) \div g, (s * d) \div g>>

RInt(n) == <<n, 1>>
RAdd(p, q) == Rat(p[1] * q[2] + q[1] * p[2], p[2] * q[2])
RSub(p, q) == Rat(p[1] * q[2] - q[1] * p[2], p[2] * q[2])
RMul(p, q) == Rat(p[1] * q[1], p[2] * q[2])
RDiv(p, q) == Rat(p[1] * q[2], p[2] * q[1])
RLe(p, q) == p[1] * q[2] <= q[1] * p[2]
RLt(p, q) == p[1] * q[2] < q[1] * p[2]
RGe(p, q) == RLe(q, p)
RMax(p, q) == IF RLe(p, q) THEN q ELSE p
InRange(p, lo, hi) == RLe(RInt(lo), p) /\ RLe(p, RInt(hi))

\* round(x, 1): the nearest tenth, a tie going to the even tenth
Round1(x) ==
    LET n == 10 * x[1]
        d == x[2]
        f == n \div d
        r == n - f * d
        up == 2 * r > d \/ (2 * r = d /\ f % 2 # 0)
    IN  Rat(IF up THEN f + 1 ELSE f, 10)

(***************************************************************************)
(* Text                                                                    *)
(***************************************************************************)
UpperToLower ==
    "A" :> "a" @@ "B" :> "b" @@ "C" :> "c" @@ "D" :> "d" @@ "E" :> "e" @@
    "F" :> "f" @@ "G" :> "g" @@ "H" :> "h" @@ "I" :> "i" @@ "J" :> "j" @@
    "K" :> "k" @@ "L" :> "l" @@ "M" :> "m" @@ "N" :> "n" @@ "O" :> "o" @@
    "P" :> "p" @@ "Q" :> "q" @@ "R" :> "r" @@ "S" :> "s" @@ "T" :> "t" @@
    "U" :> "u" @@ "V" :> "v" @@ "W" :> "w" @@ "X" :> "x" @@ "Y" :> "y" @@
    "Z" :> "z"

\* str.lower()
Lower(s) ==
    List([i \in 1..Len(s) |-> IF s[i] \in DOMAIN UpperToLower THEN UpperToLower[s[i]] ELSE s[i]])

\* `kw in text`: kw is a substring of text
Contains(text, kw) ==
    \E i \in 1..(Len(text) - Len(kw) + 1) : SubSeq(text, i, i + Len(kw) - 1) = kw

\* any(keyword in text for keyword in keywords)
AnyKeywordIn(keywords, text) == \E k \in 1..Len(keywords) : Contains(text, keywords[k])

RECURSIVE SplitFrom(_, _, _)
\* the words of s from position i on, cur being the word under construction
SplitFrom(s, i, cur) ==
    IF i > Len(s) THEN (IF cur = <<>> THEN <<>> ELSE <<cur>>)
    ELSE IF s[i] = " " THEN (IF cur = <<>> THEN <<>> ELSE <<cur>>) \o SplitFrom(s, i + 1, <<>>)
    ELSE SplitFrom(s, i + 1, Append(cur, s[i]))

\* str.split(): the maximal runs of non-blank letters
Split(s) == SplitFrom(s, 1, <<>>)

(***************************************************************************)
(* The texts of the input catalogue                                        *)
(***************************************************************************)
S_Empty == <<>>
\* the lower-cased positions scrape_votes stores, and the data model's "not-voting"
V_yes == <<"y","e","s">>
V_no == <<"n","o">>
V_not_voting == <<"n","o","t","-","v","o","t","i","n","g">>
V_not_voting_spaced == <<"n","o","t"," ","v","o","t","i","n","g">>
V_present == <<"p","r","e","s","e","n","t">>
S_PfizerPAC == <<"P","f","i","z","e","r"," ","P","A","C">>
S_ExxonEmployees == <<"E","x","x","o","n"," ","E","m","p","l","o","y","e","e","s">>
S_Pharmaceuticals == <<"P","h","a","r","m","a","c","e","u","t","i","c","a","l","s">>
S_MedicareExpansionAct == <<"M","e","d","i","c","a","r","e"," ","E","x","p","a","n","s","i","o","n"," ","A","c","t">>
S_ExpandsMedicare == <<"E","x","p","a","n","d","s"," ","M","e","d","i","c","a","r","e"," ","c","o","v","e","r","a","g","e"," ","t","o"," ","i","n","c","l","u","d","e"," ","d","e","n","t","a","l">>
S_CleanAirStandards == <<"C","l","e","a","n"," ","A","i","r"," ","S","t","a","n","d","a","r","d","s">>
S_HealthcareAndEnvironment == <<"H","e","a","l","t","h","c","a","r","e"," ","a","n","d"," ","E","n","v","i","r","o","n","m","e","n","t"," ","P","r","o","t","e","c","t","i","o","n"," ","A","c","t">>
S_FightForHealthcare == <<"I"," ","w","i","l","l"," ","f","i","g","h","t"," ","f","o","r"," ","h","e","a","l","t","h","c","a","r","e"," ","a","c","c","e","s","s"," ","f","o","r"," ","a","l","l"," ","A","m","e","r","i","c","a","n","s">>
S_Email == <<"r","e","p","@","h","o","u","s","e",".","g","o","v">>
S_Phone == <<"2","0","2","-","5","5","5","-","0","1","0","0">>
S_Website == <<"h","t","t","p","s",":","/","/","r","e","p",".","h","o","u","s","e",".","g","o","v">>

(***************************************************************************)
(* data/industries.json: the keyword tables.  The file is not among the    *)
(* sources; the keys and their order are those of the specification, the   *)
(* keywords the fewest that make tests/test_accountability.py pass.        *)
(***************************************************************************)
industries == <<
    [key |-> "pharmaceuticals", keywords |-> << <<"p","h","a","r","m","a">>, <<"p","f","i","z","e","r">> >>],
    [key |-> "oil_gas",         keywords |-> << <<"o","i","l">>, <<"e","x","x","o","n">> >>],
    [key |-> "tech",            keywords |-> << <<"t","e","c","h">>, <<"g","o","o","g","l","e">> >>],
    [key |-> "finance",         keywords |-> << <<"b","a","n","k">>, <<"f","i","n","a","n","c">> >>],
    [key |-> "defense",         keywords |-> << <<"d","e","f","e","n","s","e">> >>],
    [key |-> "healthcare",      keywords |-> << <<"h","e","a","l","t","h">>, <<"h","o","s","p","i","t","a","l">> >>],
    [key |-> "agriculture",     keywords |-> << <<"f","a","r","m">> >>],
    [key |-> "telecom",         keywords |-> << <<"t","e","l","e","c","o","m">> >>],
    [key |-> "education",       keywords |-> << <<"e","d","u","c","a","t","i","o","n">> >>],
    [key |-> "transportation",  keywords |-> << <<"t","r","a","n","s","p","o","r","t">> >>],
    [key |-> "labor",           keywords |-> << <<"u","n","i","o","n">> >>],
    [key |-> "environment",     keywords |-> << <<"e","n","v","i","r","o","n","m","e","n","t">> >>] >>

bill_categories == <<
    [key |-> "healthcare",     keywords |-> << <<"h","e","a","l","t","h">>, <<"m","e","d","i","c","a","r","e">> >>],
    [key |-> "economy",        keywords |-> << <<"e","c","o","n","o","m">>, <<"t","a","x">> >>],
    [key |-> "education",      keywords |-> << <<"e","d","u","c","a","t","i","o","n">>, <<"s","c","h","o","o","l">> >>],
    [key |-> "environment",    keywords |-> << <<"e","n","v","i","r","o","n","m","e","n","t">>, <<"c","l","i","m","a","t","e">>, <<"p","o","l","l","u","t","i","o","n">>, <<"c","l","e","a","n"," ","a","i","r">> >>],
    [key |-> "immigration",    keywords |-> << <<"i","m","m","i","g","r","a","t","i","o","n">> >>],
    [key |-> "defense",        keywords |-> << <<"d","e","f","e","n","s","e">>, <<"m","i","l","i","t","a","r","y">> >>],
    [key |-> "infrastructure", keywords |-> << <<"i","n","f","r","a","s","t","r","u","c","t","u","r","e">> >>],
    [key |-> "justice",        keywords |-> << <<"j","u","s","t","i","c","e">> >>],
    [key |-> "labor",          keywords |-> << <<"l","a","b","o","r">> >>],
    [key |-> "technology",     keywords |-> << <<"t","e","c","h","n","o","l","o","g","y">> >>],
    [key |-> "energy",         keywords |-> << <<"e","n","e","r","g","y">> >>],
    [key |-> "agriculture",    keywords |-> << <<"a","g","r","i","c","u","l","t","u","r","e">> >>] >>


\* sorted(s, key=...): Python's sort is stable; keys[i] is the key of s[i]
Rank(keys, i) ==
    1 + Cardinality({j \in 1..Len(keys) : keys[j] < keys[i] \/ (keys[j] = keys[i] /\ j < i)})

SortedBy(s, keys) ==
    LET k == List(keys)
    IN  List([p \in 1..Len(s) |-> s[CHOOSE i \in 1..Len(s) : Rank(k, i) = p]])

(***************************************************************************)
(* services/influence_service.py                                           *)
(***************************************************************************)
RECURSIVE FirstMatchFrom(_, _, _)
\* the first entry of a keyword table, from i on, one of whose keywords is in text; 0 if none
FirstMatchFrom(table, text, i) ==
    IF i > Len(table) THEN 0
    ELSE IF AnyKeywordIn(table[i].keywords, text) THEN i
    ELSE FirstMatchFrom(table, text, i + 1)

\* the categorisation that tries the donor name before the label
categorize_donation_industry_name_first(donor_name, current_industry) ==
    LET donor_lower == Lower(donor_name)
        byLabel == IF Truthy(current_industry)
                   THEN FirstMatchFrom(industries, Lower(current_industry.s), 1)
                   ELSE 0
        byName == FirstMatchFrom(industries, donor_lower, 1)
    IN  IF byName # 0 THEN industries[byName].key
        ELSE IF byLabel # 0 THEN industries[byLabel].key
        ELSE "other"

categorize_donation_industry(donor_name, current_industry) ==
    LET donor_lower == Lower(donor_name)
        byLabel == IF Truthy(current_industry)
                   THEN FirstMatchFrom(industries, Lower(current_industry.s), 1)
                   ELSE 0
        byName == FirstMatchFrom(industries, donor_lower, 1)
    IN  IF byLabel # 0 THEN industries[byLabel].key
        ELSE IF byName # 0 THEN industries[byName].key
        ELSE "other"

categorize_bill(bill_title, bill_summary) ==
    LET text == IF Truthy(bill_summary)
                THEN Lower(bill_title) \o <<" ">> \o Lower(bill_summary.s)
                ELSE Lower(bill_title)
        hit == List([i \in 1..Len(bill_categories) |->
                        AnyKeywordIn(bill_categories[i].keywords, text)])
        idx == SelectIdx(hit, 1, Len(bill_categories))
    IN  IF idx = <<>> THEN <<"other">>
        ELSE List([k \in 1..Len(idx) |-> bill_categories[idx[k]].key])

InSeq(x, s) == \E i \in 1..Len(s) : s[i] = x

\* the table with the oil and gas rule for energy bills turned round
favorable_patterns_energy_no(industry) ==
    CASE industry = "pharmaceuticals" -> <<[category |-> "healthcare", vote |-> V_no]>>
      [] industry = "oil_gas" -> <<[category |-> "environment", vote |-> V_no],
                                   [category |-> "energy", vote |-> V_no]>>
      [] industry = "tech" -> <<[category |-> "technology", vote |-> V_no]>>
      [] industry = "finance" -> <<[category |-> "economy", vote |-> V_no]>>
      [] industry = "defense" -> <<[category |-> "defense", vote |-> V_yes]>>
      [] OTHER -> <<>>

\* favorable_patterns: industry -> category -> the vote that is favorable
favorable_patterns(industry) ==
    CASE industry = "pharmaceuticals" -> <<[category |-> "healthcare", vote |-> V_no]>>
      [] industry = "oil_gas" -> <<[category |-> "environment", vote |-> V_no],
                                   [category |-> "energy", vote |-> V_yes]>>
      [] industry = "tech" -> <<[category |-> "technology", vote |-> V_no]>>
      [] industry = "finance" -> <<[category |-> "economy", vote |-> V_no]>>
      [] industry = "defense" -> <<[category |-> "defense", vote |-> V_yes]>>
      [] OTHER -> <<>>

RECURSIVE FavorableFrom(_, _, _, _)
\* the loop over bill_categories: the first category with a rule decides
FavorableFrom(vote, cats, rules, i) ==
    IF i > Len(cats) THEN FALSE
    ELSE IF \E r \in 1..Len(rules) : rules[r].category = cats[i]
         THEN \E r \in 1..Len(rules) : rules[r].category = cats[i] /\ rules[r].vote = vote
         ELSE FavorableFrom(vote, cats, rules, i + 1)

is_vote_favorable_to_industry(vote, cats, industry) ==
    FavorableFrom(vote, cats, favorable_patterns(industry), 1)

industry_category_map(industry) ==
    CASE industry = "pharmaceuticals" -> <<"healthcare">>
      [] industry = "oil_gas" -> <<"energy", "environment">>
      [] industry = "tech" -> <<"technology">>
      [] industry = "finance" -> <<"economy">>
      [] industry = "defense" -> <<"defense">>
      [] industry = "healthcare" -> <<"healthcare">>
      [] industry = "agriculture" -> <<"agriculture">>
      [] industry = "telecom" -> <<"technology">>
      [] industry = "education" -> <<"education">>
      [] industry = "transportation" -> <<"infrastructure">>
      [] industry = "labor" -> <<"labor">>
      [] industry = "environment" -> <<"environment">>
      [] OTHER -> <<>>

_is_industry_related(industry, cats) ==
    \E k \in 1..Len(industry_category_map(industry)) :
        InSeq(industry_category_map(industry)[k], cats)

LargeDonation == 10000
AssumedDays == 7

\* the assumed gap for any donation at all, whatever its amount
_get_donation_days_before_vote_any(vote_date, donations) ==
    IF donations # <<>> THEN [tag |-> "int", v |-> AssumedDays] ELSE None

\* None, or the assumed gap when some donation of the industry exceeds LargeDonation
_get_donation_days_before_vote(vote_date, donations) ==
    IF \E i \in 1..Len(donations) : donations[i].amount > LargeDonation
    THEN [tag |-> "int", v |-> AssumedDays]
    ELSE None

_check_suspicious_timing(vote_date, donations) ==
    _get_donation_days_before_vote(vote_date, donations) # None

\* industry_donations is a dict in insertion order: a sequence of entries
DictIndex(d, key) ==
    IF \E i \in 1..Len(d) : d[i].industry = key
    THEN CHOOSE i \in 1..Len(d) : d[i].industry = key
    ELSE 0

\* one pass of the loop over topDonors (lines 145-164)
AddDonor(d, donor) ==
    LET industry == categorize_donation_industry(donor.name, Get(donor.industry, None))
        i == DictIndex(d, industry)
        base == IF i = 0
                THEN Append(d, [industry |-> industry, total |-> 0, donors |-> <<>>, donations |-> <<>>])
                ELSE d
        j == IF i = 0 THEN Len(base) ELSE i
    IN  [base EXCEPT ![j] =
            [@ EXCEPT !.total = @ + donor.amount,
                      !.donors = Append(@, donor.name),
                      !.donations = Append(@, [donor |-> donor.name, amount |-> donor.amount,
                                               type |-> donor.type])]]

\* one pass of the loop over topIndustries (lines 167-180)
AddIndustry(d, contrib) ==
    LET industry == categorize_donation_industry(S_Empty, Get(contrib.industry, None))
        i == DictIndex(d, industry)
    IN  IF i = 0
        THEN Append(d, [industry |-> industry, total |-> contrib.amount,
                        donors |-> <<>>, donations |-> <<>>])
        ELSE [d EXCEPT ![i].total = @ + contrib.amount]

RECURSIVE FoldDonors(_, _, _)
FoldDonors(d, donors, i) ==
    IF i > Len(donors) THEN d ELSE FoldDonors(AddDonor(d, donors[i]), donors, i + 1)

RECURSIVE FoldIndustries(_, _, _)
FoldIndustries(d, contribs, i) ==
    IF i > Len(contribs) THEN d ELSE FoldIndustries(AddIndustry(d, contribs[i]), contribs, i + 1)

industry_donations_of(donations_data) ==
    FoldIndustries(FoldDonors(<<>>, donations_data.topDonors, 1), donations_data.topIndustries, 1)

\* the votes of every yearly record, in the order the nested loops visit them
AllVotes(votes_data) == Concat([i \in 1..Len(votes_data) |-> votes_data[i].votes])

\* the loop body of lines 186-264 for one industry: its analysis entry and its red flags
AnalyzeIndustry(entry, votes_data) ==
    LET industry == entry.industry
        votes == AllVotes(votes_data)
        flag(v) ==
            LET days_diff == _get_donation_days_before_vote(v.date, entry.donations).v
            IN  [type |-> "suspicious_timing",
                 donation_date |-> v.date - days_diff,
                 donation_amount |-> entry.total,
                 donor |-> IF entry.donors # <<>> THEN Str(entry.donors[1])
                           ELSE [tag |-> "interests", industry |-> industry],
                 vote_date |-> v.date,
                 vote_description |-> v.title,
                 days_between |-> days_diff]
    IN
    Bind(List([i \in 1..Len(votes) |->
                  categorize_bill(votes[i].title, Get(votes[i].billSummary, Str(S_Empty)))]),
         LAMBDA cats :
    Bind(SelectIdx([i \in 1..Len(votes) |-> _is_industry_related(industry, cats[i])],
                   1, Len(votes)),
         LAMBDA related :
    Bind(List([k \in 1..Len(related) |-> votes[related[k]]]),
         LAMBDA related_votes :
    Bind(SelectIdx([k \in 1..Len(related) |->
                       is_vote_favorable_to_industry(votes[related[k]].vote, cats[related[k]],
                                                     industry)],
                   1, Len(related)),
         LAMBDA favorable_idx :
    Bind(List([k \in 1..Len(favorable_idx) |-> related_votes[favorable_idx[k]]]),
         LAMBDA favorable :
    Bind(SelectSeq(favorable, LAMBDA v : _check_suspicious_timing(v.date, entry.donations)),
         LAMBDA suspicious :
    Bind(IF related_votes # <<>>
         THEN Rat(100 * Len(favorable), Len(related_votes))
         ELSE RInt(0),
         LAMBDA voting_alignment :
    Bind(Take(related_votes, 3),
         LAMBDA examples :
        [analysis |->
            [industry_key |-> industry,
             total_donations |-> entry.total,
             voting_alignment |-> Round1(voting_alignment),
             suspicious_votes |-> Len(suspicious),
             related_votes_count |-> Len(related_votes),
             examples |-> [k \in 1..Len(examples) |->
                             [bill |-> examples[k].billNumber, title |-> examples[k].title,
                              vote |-> examples[k].vote, date |-> examples[k].date]]],
         red_flags |-> [k \in 1..Len(suspicious) |-> flag(suspicious[k])]]))))))))

TopN == 10
MaxTimingFlags == 20

_calculate_donation_concentration(industry_donations, total_donations) ==
    IF total_donations = 0 THEN RInt(0)
    ELSE LET sorted_industries ==
                 Take(SortedBy(industry_donations,
                               [i \in 1..Len(industry_donations) |-> -industry_donations[i].total]),
                      TopN)
             top_10_total == SumSeq([i \in 1..Len(sorted_industries) |-> sorted_industries[i].total])
         IN  Rat(100 * top_10_total, total_donations)

RECURSIVE RSum(_)
RSum(s) == IF s = <<>> THEN RInt(0) ELSE RAdd(Head(s), RSum(Tail(s)))

calculate_influence_score(donations_data, votes_data) ==
    LET total_donations == donations_data.summary.totalRaised
    IN
    Bind(industry_donations_of(donations_data),
         LAMBDA industry_donations :
    Bind(SelectSeq(industry_donations, LAMBDA e : e.industry # "other"),
         LAMBDA analysed :
    Bind(List([i \in 1..Len(analysed) |-> AnalyzeIndustry(analysed[i], votes_data)]),
         LAMBDA per_industry :
    Bind(List([i \in 1..Len(analysed) |-> per_industry[i].analysis]),
         LAMBDA industry_analysis :
    Bind(Concat([i \in 1..Len(analysed) |-> per_industry[i].red_flags]),
         LAMBDA all_red_flags :
    Bind(Take(SortedBy(industry_analysis,
                       [i \in 1..Len(industry_analysis) |-> -industry_analysis[i].total_donations]),
              TopN),
         LAMBDA top_industries :
    Bind(_calculate_donation_concentration(industry_donations, total_donations),
         LAMBDA donation_concentration :
    Bind(IF top_industries # <<>>
         THEN RDiv(RSum([i \in 1..Len(top_industries) |-> top_industries[i].voting_alignment]),
                   RInt(Len(top_industries)))
         ELSE RInt(0),
         LAMBDA avg_voting_alignment :
    Bind(IF votes_data # <<>> /\ votes_data[1].votes # <<>>
         THEN Rat(100 * Len(all_red_flags), Len(votes_data[1].votes))
         ELSE RInt(0),
         LAMBDA suspicious_timing_rate :
    Bind(RAdd(RAdd(RMul(donation_concentration, Rat(3, 10)),
                   RMul(avg_voting_alignment, Rat(4, 10))),
              RMul(suspicious_timing_rate, Rat(3, 10))),
         LAMBDA influence_score :
        [tag |-> "dict",
         influence_score |-> Round1(influence_score),
         top_industries |-> top_industries,
         red_flags |-> Take(SortedBy(all_red_flags,
                                     [i \in 1..Len(all_red_flags) |-> all_red_flags[i].days_between]),
                            MaxTimingFlags),
         analysis |-> [donation_concentration |-> Round1(donation_concentration),
                       avg_voting_alignment |-> Round1(avg_voting_alignment),
                       suspicious_timing_rate |-> Round1(suspicious_timing_rate),
                       total_donations_analyzed |-> total_donations,
                       total_votes_analyzed |-> Len(AllVotes(votes_data))]]))))))))))(***************************************************************************)
(* services/promise_service.py                                             *)
(***************************************************************************)
category_keywords == <<
    [category |-> <<"h","e","a","l","t","h","c","a","r","e">>,
     keywords |-> << <<"h","e","a","l","t","h","c","a","r","e">>, <<"h","e","a","l","t","h">>, <<"m","e","d","i","c","a","l">>, <<"m","e","d","i","c","a","r","e">>, <<"m","e","d","i","c","a","i","d">>,
                     <<"i","n","s","u","r","a","n","c","e">>, <<"h","o","s","p","i","t","a","l">> >>],
    [category |-> <<"e","c","o","n","o","m","y">>,
     keywords |-> << <<"e","c","o","n","o","m","y">>, <<"t","a","x">>, <<"j","o","b","s">>, <<"e","m","p","l","o","y","m","e","n","t">>, <<"b","u","s","i","n","e","s","s">>, <<"i","n","c","o","m","e">> >>],
    [category |-> <<"e","d","u","c","a","t","i","o","n">>,
     keywords |-> << <<"e","d","u","c","a","t","i","o","n">>, <<"s","c","h","o","o","l">>, <<"s","t","u","d","e","n","t">>, <<"c","o","l","l","e","g","e">>, <<"t","e","a","c","h","e","r">> >>],
    [category |-> <<"e","n","v","i","r","o","n","m","e","n","t">>,
     keywords |-> << <<"e","n","v","i","r","o","n","m","e","n","t">>, <<"c","l","i","m","a","t","e">>, <<"c","l","e","a","n">>, <<"p","o","l","l","u","t","i","o","n">>, <<"r","e","n","e","w","a","b","l","e">>,
                     <<"e","n","e","r","g","y">> >>],
    [category |-> <<"i","m","m","i","g","r","a","t","i","o","n">>,
     keywords |-> << <<"i","m","m","i","g","r","a","t","i","o","n">>, <<"b","o","r","d","e","r">>, <<"v","i","s","a">>, <<"c","i","t","i","z","e","n","s","h","i","p">>, <<"r","e","f","u","g","e","e">> >>],
    [category |-> <<"d","e","f","e","n","s","e">>,
     keywords |-> << <<"d","e","f","e","n","s","e">>, <<"m","i","l","i","t","a","r","y">>, <<"v","e","t","e","r","a","n">>, <<"a","r","m","e","d"," ","f","o","r","c","e","s">> >>],
    [category |-> <<"i","n","f","r","a","s","t","r","u","c","t","u","r","e">>,
     keywords |-> << <<"i","n","f","r","a","s","t","r","u","c","t","u","r","e">>, <<"h","i","g","h","w","a","y">>, <<"b","r","i","d","g","e">>, <<"b","r","o","a","d","b","a","n","d">>,
                     <<"t","r","a","n","s","p","o","r","t","a","t","i","o","n">> >>],
    [category |-> <<"j","u","s","t","i","c","e">>,
     keywords |-> << <<"j","u","s","t","i","c","e">>, <<"p","r","i","s","o","n">>, <<"p","o","l","i","c","e">>, <<"c","r","i","m","e">>, <<"c","o","u","r","t">> >>],
    [category |-> <<"l","a","b","o","r">>,
     keywords |-> << <<"l","a","b","o","r">>, <<"w","o","r","k","e","r">>, <<"w","a","g","e">>, <<"u","n","i","o","n">>, <<"e","m","p","l","o","y","m","e","n","t">> >>] >>

stop_words == { <<"a","b","o","u","t">>, <<"w","o","u","l","d">>, <<"s","h","o","u","l","d">>, <<"t","h","e","i","r">>, <<"t","h","e","r","e">>, <<"w","h","e","r","e">>, <<"t","h","e","s","e">>,
                <<"t","h","o","s","e">> }

MinWordLen == 4
MaxTextKeywords == 5

_extract_keywords(promise_text, category) ==
    LET hit == {i \in 1..Len(category_keywords) : category_keywords[i].category = category}
        keywords == IF hit = {} THEN <<>> ELSE category_keywords[CHOOSE i \in hit : TRUE].keywords
        words == Split(Lower(promise_text))
        important_words == SelectSeq(words, LAMBDA w : Len(w) > MinWordLen /\ w \notin stop_words)
    IN  keywords \o Take(important_words, MaxTextKeywords)

\* the votes related to a promise, or AttributeError: vote.get("billSummary", "") is None
\* for a vote whose billSummary key is present and null, and None has no lower()
_find_related_votes(promise_text, promise_category, votes_data) ==
    LET keywords == _extract_keywords(promise_text, promise_category)
        votes == AllVotes(votes_data)
        related(v) ==
            LET vote_title == Lower(v.title)
                vote_summary == Lower(Get(v.billSummary, Str(S_Empty)).s)
            IN  \E k \in 1..Len(keywords) :
                    Contains(vote_title, keywords[k]) \/ Contains(vote_summary, keywords[k])
    IN  IF \E i \in 1..Len(votes) : Get(votes[i].billSummary, Str(S_Empty)) = None
        THEN AttributeError
        ELSE [tag |-> "list", items |-> SelectSeq(votes, related)]

pro_indicators == << <<"f","i","g","h","t"," ","f","o","r">>, <<"s","u","p","p","o","r","t">>, <<"e","x","p","a","n","d">>, <<"i","n","c","r","e","a","s","e">>, <<"p","r","o","t","e","c","t">>,
                     <<"s","t","r","e","n","g","t","h","e","n">> >>
anti_indicators == << <<"f","i","g","h","t"," ","a","g","a","i","n","s","t">>, <<"o","p","p","o","s","e">>, <<"r","e","d","u","c","e">>, <<"c","u","t">>, <<"e","l","i","m","i","n","a","t","e">>,
                      <<"s","t","o","p">> >>

_check_vote_promise_alignment(promise_text, vote) ==
    LET vote_value == Lower(vote.vote)
        promise_lower == Lower(promise_text)
        is_pro_promise == AnyKeywordIn(pro_indicators, promise_lower)
        is_anti_promise == AnyKeywordIn(anti_indicators, promise_lower)
    IN  IF is_pro_promise /\ vote_value = V_yes THEN "supports"
        ELSE IF is_pro_promise /\ vote_value = V_no THEN "contradicts"
        ELSE IF is_anti_promise /\ vote_value = V_no THEN "supports"
        ELSE IF is_anti_promise /\ vote_value = V_yes THEN "contradicts"
        ELSE "neutral"

\* the status with `>` where line 323 has `>=`
_determine_promise_status_strict(supporting_votes, contradicting_votes) ==
    LET total_votes == Len(supporting_votes) + Len(contradicting_votes)
        contradiction_rate == Rat(Len(contradicting_votes), total_votes)
    IN  IF total_votes = 0 THEN "not_addressed"
        ELSE IF RLt(Rat(7, 10), contradiction_rate) THEN "broken"
        ELSE IF RGe(contradiction_rate, Rat(4, 10)) THEN "in_progress"
        ELSE IF Len(supporting_votes) >= 3 THEN "kept"
        ELSE "in_progress"

_determine_promise_status(supporting_votes, contradicting_votes) ==
    LET total_votes == Len(supporting_votes) + Len(contradicting_votes)
        contradiction_rate == Rat(Len(contradicting_votes), total_votes)
    IN  IF total_votes = 0 THEN "not_addressed"
        ELSE IF RGe(contradiction_rate, Rat(7, 10)) THEN "broken"
        ELSE IF RGe(contradiction_rate, Rat(4, 10)) THEN "in_progress"
        ELSE IF Len(supporting_votes) >= 3 THEN "kept"
        ELSE "in_progress"

MaxContradictingEvidence == 10
MaxSupportingEvidence == 5

Evidence(vote, contradicts) ==
    [vote_id |-> vote.id, bill_name |-> vote.title, bill_number |-> vote.billNumber,
     vote |-> vote.vote, date |-> vote.date, contradicts_promise |-> contradicts]

_analyze_single_promise(promise, votes_data) ==
    LET promise_text == promise.text
    IN
    Bind(Lower(promise.category),
         LAMBDA promise_category :
    Bind(_find_related_votes(promise_text, promise_category, votes_data),
         LAMBDA related_votes :
    IF IsRaised(related_votes) THEN related_votes
    ELSE
    Bind(List([i \in 1..Len(related_votes.items) |->
                  _check_vote_promise_alignment(promise_text, related_votes.items[i])]),
         LAMBDA alignment :
    Bind(SelectIdx([i \in 1..Len(alignment) |-> alignment[i] = "supports"], 1, Len(alignment)),
         LAMBDA supporting_idx :
    Bind(SelectIdx([i \in 1..Len(alignment) |-> alignment[i] = "contradicts"], 1, Len(alignment)),
         LAMBDA contradicting_idx :
    Bind(List([k \in 1..Len(supporting_idx) |-> related_votes.items[supporting_idx[k]]]),
         LAMBDA supporting_votes :
    Bind(List([k \in 1..Len(contradicting_idx) |-> related_votes.items[contradicting_idx[k]]]),
         LAMBDA contradicting_votes :
    Bind(Take(contradicting_votes, MaxContradictingEvidence),
         LAMBDA against :
    Bind(Take(supporting_votes, MaxSupportingEvidence),
         LAMBDA for :
        [tag |-> "dict",
         promise_id |-> promise.id,
         category |-> promise_category,
         promise_text |-> promise_text,
         promise_date |-> promise.source,
         source_url |-> promise.source,
         status |-> _determine_promise_status(supporting_votes, contradicting_votes),
         evidence |-> [k \in 1..Len(against) |-> Evidence(against[k], TRUE)]
                      \o [k \in 1..Len(for) |-> Evidence(for[k], FALSE)],
         times_voted_against |-> Len(contradicting_votes),
         times_voted_for |-> Len(supporting_votes)])))))))))

CountStatus(analyzed, status) ==
    Cardinality({i \in 1..Len(analyzed) : analyzed[i].status = status})

\* the analysis with half credit for a promise in progress
analyze_promise_keeping_half_credit(promises_data, votes_data) ==
    LET promises == promises_data.items
    IN
    IF promises = <<>>
    THEN [tag |-> "dict",
          summary |-> [total_promises |-> 0, kept |-> 0, broken |-> 0, in_progress |-> 0,
                       not_addressed |-> 0, promise_keeping_score |-> RInt(0)],
          promises |-> <<>>]
    ELSE
    Bind(List([i \in 1..Len(promises) |-> _analyze_single_promise(promises[i], votes_data)]),
         LAMBDA analyzed_promises :
    IF \E i \in 1..Len(analyzed_promises) : IsRaised(analyzed_promises[i])
    THEN AttributeError
    ELSE
    Bind(Len(analyzed_promises),
         LAMBDA total :
    Bind(CountStatus(analyzed_promises, "kept"),
         LAMBDA kept :
    Bind(IF total > 0
         THEN Rat(100 * kept + 50 * CountStatus(analyzed_promises, "in_progress"), total)
         ELSE RInt(0),
         LAMBDA promise_keeping_score :
        [tag |-> "dict",
         summary |-> [total_promises |-> total,
                      kept |-> kept,
                      broken |-> CountStatus(analyzed_promises, "broken"),
                      in_progress |-> CountStatus(analyzed_promises, "in_progress"),
                      not_addressed |-> CountStatus(analyzed_promises, "not_addressed"),
                      promise_keeping_score |-> Round1(promise_keeping_score)],
         promises |-> SortedBy(analyzed_promises,
                               [i \in 1..total |-> -analyzed_promises[i].times_voted_against])]))))

analyze_promise_keeping(promises_data, votes_data) ==
    LET promises == promises_data.items
    IN
    IF promises = <<>>
    THEN [tag |-> "dict",
          summary |-> [total_promises |-> 0, kept |-> 0, broken |-> 0, in_progress |-> 0,
                       not_addressed |-> 0, promise_keeping_score |-> RInt(0)],
          promises |-> <<>>]
    ELSE
    Bind(List([i \in 1..Len(promises) |-> _analyze_single_promise(promises[i], votes_data)]),
         LAMBDA analyzed_promises :
    IF \E i \in 1..Len(analyzed_promises) : IsRaised(analyzed_promises[i])
    THEN AttributeError
    ELSE
    Bind(Len(analyzed_promises),
         LAMBDA total :
    Bind(CountStatus(analyzed_promises, "kept"),
         LAMBDA kept :
    Bind(IF total > 0 THEN Rat(100 * kept, total) ELSE RInt(0),
         LAMBDA promise_keeping_score :
        [tag |-> "dict",
         summary |-> [total_promises |-> total,
                      kept |-> kept,
                      broken |-> CountStatus(analyzed_promises, "broken"),
                      in_progress |-> CountStatus(analyzed_promises, "in_progress"),
                      not_addressed |-> CountStatus(analyzed_promises, "not_addressed"),
                      promise_keeping_score |-> Round1(promise_keeping_score)],
         promises |-> SortedBy(analyzed_promises,
                               [i \in 1..total |-> -analyzed_promises[i].times_voted_against])]))))(***************************************************************************)
(* services/red_flags_service.py                                           *)
(*                                                                         *)
(* A detector returns its flags without their "id"; detect_red_flags gives *)
(* the k-th flag created the k-th value uuid.uuid4() returns in this call. *)
(* An f-string is kept as its template and the numbers put into it.        *)
(***************************************************************************)
\* THRESHOLDS, as exact fractions
broken_promise_rate == Rat(50, 100)
missed_votes_rate == Rat(20, 100)
\* a congressional average of 10%
congress_avg_missed_tenth == Rat(10, 100)
congress_avg_missed == Rat(8, 100)
high_donor_concentration == Rat(70, 100)
corporate_pac_threshold == Rat(60, 100)

WorstPromisesMin == 5
WorstPromisesHigh == 10
MaxBrokenPromiseFlags == 5
MaxTimingRedFlags == 10
MaxConflictAlerts == 10
ExcessiveTrades == 50
TopDonors == 10

Date(d) == [tag |-> "date", v |-> d]

\* the detector with `>` where line 127 has `>=`
_detect_broken_promise_flags_strict(promise_analysis) ==
    LET summary == promise_analysis.summary
        total == summary.total_promises
        broken == summary.broken
        promises == promise_analysis.promises
        worst_promises ==
            SelectSeq(promises,
                      LAMBDA p : p.status = "broken" /\ p.times_voted_against >= WorstPromisesMin)
        top == Take(worst_promises, MaxBrokenPromiseFlags)
        flag(p) ==
            [type |-> "broken_promise",
             severity |-> IF p.times_voted_against >= WorstPromisesHigh THEN "high" ELSE "medium",
             title |-> [fmt |-> "Voted against campaign promise {} times",
                        args |-> <<RInt(p.times_voted_against)>>],
             description |-> [fmt |-> "Promised to {} but voted against it {} times",
                              text |-> p.promise_text,
                              args |-> <<RInt(p.times_voted_against)>>],
             evidence_count |-> p.times_voted_against,
             first_occurrence |-> IF p.evidence # <<>> THEN Date(p.evidence[1].date)
                                  ELSE Str(S_Empty),
             last_occurrence |-> IF p.evidence # <<>> THEN Date(p.evidence[Len(p.evidence)].date)
                                 ELSE Str(S_Empty),
             category |-> p.category]
    IN  IF total = 0 THEN <<>>
        ELSE IF RLt(broken_promise_rate, Rat(broken, total))
        THEN [k \in 1..Len(top) |-> flag(top[k])]
        ELSE <<>>

_detect_broken_promise_flags(promise_analysis) ==
    LET summary == promise_analysis.summary
        total == summary.total_promises
        broken == summary.broken
        promises == promise_analysis.promises
        worst_promises ==
            SelectSeq(promises,
                      LAMBDA p : p.status = "broken" /\ p.times_voted_against >= WorstPromisesMin)
        top == Take(worst_promises, MaxBrokenPromiseFlags)
        flag(p) ==
            [type |-> "broken_promise",
             severity |-> IF p.times_voted_against >= WorstPromisesHigh THEN "high" ELSE "medium",
             title |-> [fmt |-> "Voted against campaign promise {} times",
                        args |-> <<RInt(p.times_voted_against)>>],
             description |-> [fmt |-> "Promised to {} but voted against it {} times",
                              text |-> p.promise_text,
                              args |-> <<RInt(p.times_voted_against)>>],
             evidence_count |-> p.times_voted_against,
             first_occurrence |-> IF p.evidence # <<>> THEN Date(p.evidence[1].date)
                                  ELSE Str(S_Empty),
             last_occurrence |-> IF p.evidence # <<>> THEN Date(p.evidence[Len(p.evidence)].date)
                                 ELSE Str(S_Empty),
             category |-> p.category]
    IN  IF total = 0 THEN <<>>
        ELSE IF RGe(Rat(broken, total), broken_promise_rate)
        THEN [k \in 1..Len(top) |-> flag(top[k])]
        ELSE <<>>

_detect_suspicious_timing_flags(influence_analysis) ==
    LET red_flags == Take(influence_analysis.red_flags, MaxTimingRedFlags)
        timing == SelectSeq(red_flags, LAMBDA rf : rf.type = "suspicious_timing")
        flag(rf) ==
            LET days == rf.days_between
            IN  [type |-> "suspicious_timing",
                 severity |-> IF days <= 7 THEN "critical"
                              ELSE IF days <= 14 THEN "high" ELSE "medium",
                 title |-> [fmt |-> "Donation followed by favorable vote within {} days",
                            args |-> <<RInt(days)>>],
                 description |-> [fmt |-> "${:,.0f} donation from {}, then voted favorably on related bill",
                                  donor |-> rf.donor,
                                  args |-> <<RInt(rf.donation_amount)>>],
                 donation_date |-> rf.donation_date,
                 vote_date |-> rf.vote_date,
                 days_between |-> days,
                 donation_amount |-> rf.donation_amount,
                 donor |-> rf.donor,
                 vote_description |-> rf.vote_description]
    IN  [k \in 1..Len(timing) |-> flag(timing[k])]

MissedValues == {V_not_voting, V_not_voting_spaced, V_present}

\* the detector with `>` where line 213 has `>=`
_detect_attendance_flags_strict(votes_data) ==
    LET votes == AllVotes(votes_data)
        total_votes == Len(votes)
        missed_votes == Cardinality({i \in 1..Len(votes) : Lower(votes[i].vote) \in MissedValues})
        missed_rate == Rat(missed_votes, total_votes)
        multiplier == RDiv(missed_rate, congress_avg_missed)
        severity == IF RGe(multiplier, RInt(3)) THEN "critical"
                    ELSE IF RGe(multiplier, RInt(2)) THEN "high"
                    ELSE "medium"
    IN  IF total_votes = 0 THEN <<>>
        ELSE IF RLt(missed_votes_rate, missed_rate)
        THEN << [type |-> "excessive_missed_votes",
                 severity |-> severity,
                 title |-> [fmt |-> "Missed {:.1f}% of votes",
                            args |-> <<Round1(RMul(missed_rate, RInt(100)))>>],
                 description |-> [fmt |-> "Missed {} of {} votes ({:.1f}x the congressional average)",
                                  args |-> <<RInt(missed_votes), RInt(total_votes),
                                             Round1(multiplier)>>],
                 missed_votes |-> missed_votes,
                 total_votes |-> total_votes,
                 missed_rate_pct |-> Round1(RMul(missed_rate, RInt(100))),
                 congress_average_pct |-> Round1(RMul(congress_avg_missed, RInt(100)))] >>
        ELSE <<>>

_detect_attendance_flags(votes_data) ==
    LET votes == AllVotes(votes_data)
        total_votes == Len(votes)
        missed_votes == Cardinality({i \in 1..Len(votes) : Lower(votes[i].vote) \in MissedValues})
        missed_rate == Rat(missed_votes, total_votes)
        multiplier == RDiv(missed_rate, congress_avg_missed)
        severity == IF RGe(multiplier, RInt(3)) THEN "critical"
                    ELSE IF RGe(multiplier, RInt(2)) THEN "high"
                    ELSE "medium"
    IN  IF total_votes = 0 THEN <<>>
        ELSE IF RGe(missed_rate, missed_votes_rate)
        THEN << [type |-> "excessive_missed_votes",
                 severity |-> severity,
                 title |-> [fmt |-> "Missed {:.1f}% of votes",
                            args |-> <<Round1(RMul(missed_rate, RInt(100)))>>],
                 description |-> [fmt |-> "Missed {} of {} votes ({:.1f}x the congressional average)",
                                  args |-> <<RInt(missed_votes), RInt(total_votes),
                                             Round1(multiplier)>>],
                 missed_votes |-> missed_votes,
                 total_votes |-> total_votes,
                 missed_rate_pct |-> Round1(RMul(missed_rate, RInt(100))),
                 congress_average_pct |-> Round1(RMul(congress_avg_missed, RInt(100)))] >>
        ELSE <<>>

\* official_data.get("personal", {}).get("contactInfo", {}): the default only for a missing key
ContactInfoOf(official_data) == Get(official_data.personal.contactInfo, [tag |-> "dict",
                                    email |-> Absent, phone |-> Absent, website |-> Absent])

\* the flags, or AttributeError when contactInfo is null: None has no get()
_detect_transparency_flags(official_data) ==
    LET contact_info == ContactInfoOf(official_data)
    IN  IF contact_info = None THEN AttributeError
        ELSE [tag |-> "list", items |->
            (IF ~Truthy(contact_info.email) /\ ~Truthy(contact_info.phone)
             THEN << [type |-> "low_accessibility",
                      severity |-> "medium",
                      title |-> [fmt |-> "Limited contact information available", args |-> <<>>],
                      description |-> [fmt |-> "No public email or phone number listed, making it difficult for constituents to reach their representative",
                                       args |-> <<>>]] >>
             ELSE <<>>)
            \o
            (IF ~Truthy(contact_info.website)
             THEN << [type |-> "low_transparency",
                      severity |-> "low",
                      title |-> [fmt |-> "No public website", args |-> <<>>],
                      description |-> [fmt |-> "No official website listed for constituent information",
                                       args |-> <<>>]] >>
             ELSE <<>>)]

\* trades is kept as the number of its entries: only len(trades) is read
\* trades is the number of trades: the list is only counted
\* the detector with `>=` where line 308 has `>`
_detect_stock_conflicts_from50(stocks_data) ==
    LET trades == stocks_data.trades
        conflict_alerts == Take(stocks_data.conflictAlerts, MaxConflictAlerts)
        flag(alert) ==
            [type |-> "stock_conflict",
             severity |-> "high",
             title |-> [fmt |-> "Stock trade in conflicted industry", args |-> <<>>],
             description |-> Field(alert, "description", Str(S_Empty)),
             trade_date |-> Field(alert, "tradeDate", Str(S_Empty)),
             asset |-> Field(alert, "asset", Str(S_Empty)),
             vote_date |-> Field(alert, "voteDate", Str(S_Empty)),
             bill |-> Field(alert, "bill", Str(S_Empty))]
    IN  [k \in 1..Len(conflict_alerts) |-> flag(conflict_alerts[k])]
        \o
        (IF trades >= ExcessiveTrades
         THEN << [type |-> "excessive_trading",
                  severity |-> "medium",
                  title |-> [fmt |-> "High volume of stock trades ({})", args |-> <<RInt(trades)>>],
                  description |-> [fmt |-> "Made {} stock trades, raising questions about potential conflicts of interest",
                                   args |-> <<RInt(trades)>>],
                  trade_count |-> trades] >>
         ELSE <<>>)

_detect_stock_conflicts(stocks_data) ==
    LET trades == stocks_data.trades
        conflict_alerts == Take(stocks_data.conflictAlerts, MaxConflictAlerts)
        flag(alert) ==
            [type |-> "stock_conflict",
             severity |-> "high",
             title |-> [fmt |-> "Stock trade in conflicted industry", args |-> <<>>],
             description |-> Field(alert, "description", Str(S_Empty)),
             trade_date |-> Field(alert, "tradeDate", Str(S_Empty)),
             asset |-> Field(alert, "asset", Str(S_Empty)),
             vote_date |-> Field(alert, "voteDate", Str(S_Empty)),
             bill |-> Field(alert, "bill", Str(S_Empty))]
    IN  [k \in 1..Len(conflict_alerts) |-> flag(conflict_alerts[k])]
        \o
        (IF trades > ExcessiveTrades
         THEN << [type |-> "excessive_trading",
                  severity |-> "medium",
                  title |-> [fmt |-> "High volume of stock trades ({})", args |-> <<RInt(trades)>>],
                  description |-> [fmt |-> "Made {} stock trades, raising questions about potential conflicts of interest",
                                   args |-> <<RInt(trades)>>],
                  trade_count |-> trades] >>
         ELSE <<>>)

\* the detector summing every listed donor where line 358 takes the first ten
_detect_donor_concentration_flags_all(donations_data) ==
    LET summary == donations_data.summary
        total_raised == summary.totalRaised
        pac_contributions == summary.pacContributions
        pac_rate == Rat(pac_contributions, total_raised)
        pac_flag ==
            [type |-> "corporate_pac_dependency",
             severity |-> IF RGe(pac_rate, Rat(80, 100)) THEN "critical"
                          ELSE IF RGe(pac_rate, Rat(70, 100)) THEN "high"
                          ELSE "medium",
             title |-> [fmt |-> "{:.1f}% of funding from PACs",
                        args |-> <<Round1(RMul(pac_rate, RInt(100)))>>],
             description |-> [fmt |-> "Received {:.1f}% of campaign funding from PACs, suggesting heavy corporate influence",
                              args |-> <<Round1(RMul(pac_rate, RInt(100)))>>],
             pac_amount |-> pac_contributions,
             total_raised |-> total_raised,
             pac_percentage |-> Round1(RMul(pac_rate, RInt(100)))]
        top_donors == donations_data.topDonors
        first10 == top_donors
        top_10_total == SumSeq([i \in 1..Len(first10) |-> first10[i].amount])
        concentration == Rat(top_10_total, total_raised)
        concentration_flag ==
            [type |-> "donor_concentration",
             severity |-> IF RGe(concentration, Rat(80, 100)) THEN "high" ELSE "medium",
             title |-> [fmt |-> "Top 10 donors account for {:.1f}% of funding",
                        args |-> <<Round1(RMul(concentration, RInt(100)))>>],
             description |-> [fmt |-> "Campaign funding highly concentrated among small group of donors",
                              args |-> <<>>],
             concentration_percentage |-> Round1(RMul(concentration, RInt(100))),
             top_10_amount |-> top_10_total,
             total_raised |-> total_raised]
    IN  IF total_raised = 0 THEN <<>>
        ELSE (IF RGe(pac_rate, corporate_pac_threshold) THEN <<pac_flag>> ELSE <<>>)
             \o
             (IF Len(top_donors) >= TopDonors /\ RGe(concentration, high_donor_concentration)
              THEN <<concentration_flag>> ELSE <<>>)

_detect_donor_concentration_flags(donations_data) ==
    LET summary == donations_data.summary
        total_raised == summary.totalRaised
        pac_contributions == summary.pacContributions
        pac_rate == Rat(pac_contributions, total_raised)
        pac_flag ==
            [type |-> "corporate_pac_dependency",
             severity |-> IF RGe(pac_rate, Rat(80, 100)) THEN "critical"
                          ELSE IF RGe(pac_rate, Rat(70, 100)) THEN "high"
                          ELSE "medium",
             title |-> [fmt |-> "{:.1f}% of funding from PACs",
                        args |-> <<Round1(RMul(pac_rate, RInt(100)))>>],
             description |-> [fmt |-> "Received {:.1f}% of campaign funding from PACs, suggesting heavy corporate influence",
                              args |-> <<Round1(RMul(pac_rate, RInt(100)))>>],
             pac_amount |-> pac_contributions,
             total_raised |-> total_raised,
             pac_percentage |-> Round1(RMul(pac_rate, RInt(100)))]
        top_donors == donations_data.topDonors
        first10 == Take(top_donors, TopDonors)
        top_10_total == SumSeq([i \in 1..Len(first10) |-> first10[i].amount])
        concentration == Rat(top_10_total, total_raised)
        concentration_flag ==
            [type |-> "donor_concentration",
             severity |-> IF RGe(concentration, Rat(80, 100)) THEN "high" ELSE "medium",
             title |-> [fmt |-> "Top 10 donors account for {:.1f}% of funding",
                        args |-> <<Round1(RMul(concentration, RInt(100)))>>],
             description |-> [fmt |-> "Campaign funding highly concentrated among small group of donors",
                              args |-> <<>>],
             concentration_percentage |-> Round1(RMul(concentration, RInt(100))),
             top_10_amount |-> top_10_total,
             total_raised |-> total_raised]
    IN  IF total_raised = 0 THEN <<>>
        ELSE (IF RGe(pac_rate, corporate_pac_threshold) THEN <<pac_flag>> ELSE <<>>)
             \o
             (IF Len(top_donors) >= TopDonors /\ RGe(concentration, high_donor_concentration)
              THEN <<concentration_flag>> ELSE <<>>)

\* the value of the k-th uuid.uuid4() call of a run whose entropy is `entropy`
uuid4(entropy, k) == [entropy |-> entropy, n |-> k]

severity_order(severity) ==
    CASE severity = "critical" -> 0
      [] severity = "high" -> 1
      [] severity = "medium" -> 2
      [] OTHER -> 3

\* the flags left in detection order
SortBySeverity_skipped(flags) == flags

\* flags.sort(key=severity_order): stable
SortBySeverity(flags) == SortedBy(flags, [i \in 1..Len(flags) |-> severity_order(flags[i].severity)])

CountSeverity(flags, severity) ==
    Cardinality({i \in 1..Len(flags) : flags[i].severity = severity})

\* `if x:` for an optional dict argument: None is falsy (the dicts of the model are never empty)
Given(x) == x # None

detect_red_flags(official_data, promise_analysis, influence_analysis, votes_data, donations_data, stocks_data, entropy) ==
    LET promise_flags == IF Given(promise_analysis)
                         THEN _detect_broken_promise_flags(promise_analysis) ELSE <<>>
        timing_flags == IF Given(influence_analysis)
                        THEN _detect_suspicious_timing_flags(influence_analysis) ELSE <<>>
        attendance_flags == IF votes_data # <<>>
                            THEN _detect_attendance_flags(votes_data) ELSE <<>>
        stock_flags == IF Given(stocks_data) THEN _detect_stock_conflicts(stocks_data) ELSE <<>>
        donor_flags == IF Given(donations_data)
                       THEN _detect_donor_concentration_flags(donations_data) ELSE <<>>
    IN
    Bind(_detect_transparency_flags(official_data),
         LAMBDA transparency_flags :
    IF IsRaised(transparency_flags) THEN transparency_flags
    ELSE
    Bind(promise_flags \o timing_flags \o attendance_flags
         \o transparency_flags.items \o stock_flags \o donor_flags,
         LAMBDA detected :
    Bind(List([k \in 1..Len(detected) |->
                  [f \in DOMAIN detected[k] \cup {"id"} |->
                      IF f = "id" THEN uuid4(entropy, k) ELSE detected[k][f]]]),
         LAMBDA flags :
        [tag |-> "dict",
         total_red_flags |-> Len(flags),
         by_severity |-> [critical |-> CountSeverity(flags, "critical"),
                          high |-> CountSeverity(flags, "high"),
                          medium |-> CountSeverity(flags, "medium"),
                          low |-> CountSeverity(flags, "low")],
         flags |-> SortBySeverity(flags)])))(***************************************************************************)
(* services/accountability_score_service.py                                *)
(***************************************************************************)
\* WEIGHTS, in dict order, as exact fractions
WEIGHTS == [promise_keeping |-> Rat(40, 100),
            transparency |-> Rat(20, 100),
            constituent_alignment |-> Rat(20, 100),
            attendance |-> Rat(10, 100),
            donor_independence |-> Rat(10, 100)]

\* GRADE_THRESHOLDS, in dict order
GRADE_THRESHOLDS == << [grade |-> "A", threshold |-> 90],
                       [grade |-> "B", threshold |-> 80],
                       [grade |-> "C", threshold |-> 70],
                       [grade |-> "D", threshold |-> 60],
                       [grade |-> "F", threshold |-> 0] >>

NeutralScore == 50

_calculate_promise_keeping_score(promise_analysis) ==
    IF ~Given(promise_analysis) THEN RInt(NeutralScore)
    ELSE promise_analysis.summary.promise_keeping_score

TransparencyTypes == {"low_transparency", "low_accessibility", "no_town_halls"}

FlagDeduction(flag) ==
    IF flag.type \in TransparencyTypes
    THEN (IF flag.severity = "critical" THEN 20
          ELSE IF flag.severity = "high" THEN 15
          ELSE IF flag.severity = "medium" THEN 10
          ELSE 5)
    ELSE 0

\* the score, or AttributeError when contactInfo is null: None has no get()
_calculate_transparency_score(official_data, red_flags) ==
    LET flags == IF Given(red_flags) THEN red_flags.flags ELSE <<>>
        after_flags == 100 - SumSeq([i \in 1..Len(flags) |-> FlagDeduction(flags[i])])
        contact_info == ContactInfoOf(official_data)
        score == after_flags
                 - (IF ~Truthy(contact_info.email) THEN 15 ELSE 0)
                 - (IF ~Truthy(contact_info.phone) THEN 10 ELSE 0)
                 - (IF ~Truthy(contact_info.website) THEN 10 ELSE 0)
    IN  IF contact_info = None THEN AttributeError
        ELSE [tag |-> "float", v |-> RMax(RInt(0), RInt(score))]

NotCastValues == {V_not_voting, V_not_voting_spaced, V_present, S_Empty}

\* the attendance score were "present" a vote cast
_calculate_attendance_score_present(votes_data) ==
    LET votes == AllVotes(votes_data)
        total_votes == Len(votes)
        votes_cast == Cardinality({i \in 1..Len(votes) :
                                      Lower(votes[i].vote) \notin NotCastValues \ {V_present}})
    IN  IF votes_data = <<>> THEN RInt(NeutralScore)
        ELSE IF total_votes = 0 THEN RInt(NeutralScore)
        ELSE Rat(100 * votes_cast, total_votes)

_calculate_attendance_score(votes_data) ==
    LET votes == AllVotes(votes_data)
        total_votes == Len(votes)
        votes_cast == Cardinality({i \in 1..Len(votes) : Lower(votes[i].vote) \notin NotCastValues})
    IN  IF votes_data = <<>> THEN RInt(NeutralScore)
        ELSE IF total_votes = 0 THEN RInt(NeutralScore)
        ELSE Rat(100 * votes_cast, total_votes)

\* the donor independence score were the neutral score its value without an influence analysis
\* the blend with the weights 0.4 and 0.6
_calculate_donor_independence_score_skewed(donations_data, influence_analysis) ==
    LET summary == donations_data.summary
        individual_pct == Rat(100 * summary.individualContributions, summary.totalRaised)
        independence == RSub(RInt(100), influence_analysis.influence_score)
    IN  IF ~Given(donations_data) THEN RInt(NeutralScore)
        ELSE IF summary.totalRaised = 0 THEN RInt(NeutralScore)
        ELSE IF Given(influence_analysis)
        THEN RAdd(RMul(individual_pct, Rat(4, 10)), RMul(independence, Rat(6, 10)))
        ELSE individual_pct

_calculate_donor_independence_score_neutral(donations_data, influence_analysis) ==
    LET summary == donations_data.summary
        individual_pct == Rat(100 * summary.individualContributions, summary.totalRaised)
        independence == RSub(RInt(100), influence_analysis.influence_score)
    IN  IF ~Given(donations_data) THEN RInt(NeutralScore)
        ELSE IF summary.totalRaised = 0 THEN RInt(NeutralScore)
        ELSE IF Given(influence_analysis)
        THEN RAdd(RMul(individual_pct, Rat(5, 10)), RMul(independence, Rat(5, 10)))
        ELSE RInt(NeutralScore)

_calculate_donor_independence_score(donations_data, influence_analysis) ==
    LET summary == donations_data.summary
        total_raised == summary.totalRaised
        individual_contributions == summary.individualContributions
        individual_pct == Rat(100 * individual_contributions, total_raised)
        influence_score == influence_analysis.influence_score
        independence == RSub(RInt(100), influence_score)
    IN  IF ~Given(donations_data) THEN RInt(NeutralScore)
        ELSE IF total_raised = 0 THEN RInt(NeutralScore)
        ELSE IF Given(influence_analysis)
        THEN RAdd(RMul(individual_pct, Rat(5, 10)), RMul(independence, Rat(5, 10)))
        ELSE individual_pct

_calculate_constituent_alignment_score(votes_data, official_data) == RInt(NeutralScore)

RECURSIVE GradeFrom(_, _)
\* the loop over GRADE_THRESHOLDS.items() from entry i on
GradeFrom(score, i) ==
    IF i > Len(GRADE_THRESHOLDS) THEN "F"
    ELSE IF RGe(score, RInt(GRADE_THRESHOLDS[i].threshold)) THEN GRADE_THRESHOLDS[i].grade
    ELSE GradeFrom(score, i + 1)

\* the grade were a threshold reached only by a score above it
_get_grade_strict(score) ==
    IF RLt(RInt(90), score) THEN "A"
    ELSE IF RLt(RInt(80), score) THEN "B"
    ELSE IF RLt(RInt(70), score) THEN "C"
    ELSE IF RLt(RInt(60), score) THEN "D"
    ELSE "F"

_get_grade(score) == GradeFrom(score, 1)

_calculate_trend(current_score) == "stable"

PeerAverage == 62
PeerRank == 142
PeerTotal == 150

_calculate_peer_comparison(current_score) ==
    [average_score |-> PeerAverage, rank |-> PeerRank, total_peers |-> PeerTotal]

\* placeholder values
_get_transparency_metrics(official_data, red_flags) ==
    [town_halls_per_year |-> Rat(1, 2), constituent_response_rate |-> 12,
     calendar_public |-> FALSE]

_get_missed_votes_pct(votes_data) ==
    LET votes == AllVotes(votes_data)
        total_votes == Len(votes)
        missed_votes == Cardinality({i \in 1..Len(votes) : Lower(votes[i].vote) \in NotCastValues})
    IN  IF votes_data = <<>> THEN RInt(0)
        ELSE IF total_votes = 0 THEN RInt(0)
        ELSE Round1(Rat(100 * missed_votes, total_votes))

_get_corporate_pac_pct(donations_data) ==
    IF ~Given(donations_data) THEN RInt(0)
    ELSE IF donations_data.summary.totalRaised = 0 THEN RInt(0)
    ELSE Round1(Rat(100 * donations_data.summary.pacContributions,
                    donations_data.summary.totalRaised))

DistrictAlignmentPct == 34

_get_district_alignment_pct(votes_data, official_data) == RInt(DistrictAlignmentPct)

\* int(x): truncation toward zero of a non-negative number
IntOf(x) == x[1] \div x[2]

Component(score, weight) ==
    [score |-> Round1(score),
     weight |-> IntOf(RMul(weight, RInt(100))),
     weighted_contribution |-> Round1(RMul(score, weight))]

WithFields(r, extra) ==
    [f \in DOMAIN r \cup DOMAIN extra |-> IF f \in DOMAIN extra THEN extra[f] ELSE r[f]]

\* the weighted sum without its attendance term
WeightedSum_short(promise_keeping_score, transparency_score, constituent_alignment_score, attendance_score, donor_independence_score) ==
    RAdd(RAdd(RAdd(RMul(promise_keeping_score, WEIGHTS.promise_keeping),
                   RMul(transparency_score, WEIGHTS.transparency)),
              RMul(constituent_alignment_score, WEIGHTS.constituent_alignment)),
         RMul(donor_independence_score, WEIGHTS.donor_independence))

\* the weighted sum of lines 77-83, before it is rounded
WeightedSum(promise_keeping_score, transparency_score, constituent_alignment_score, attendance_score, donor_independence_score) ==
    RAdd(RAdd(RAdd(RAdd(RMul(promise_keeping_score, WEIGHTS.promise_keeping),
                        RMul(transparency_score, WEIGHTS.transparency)),
                   RMul(constituent_alignment_score, WEIGHTS.constituent_alignment)),
              RMul(attendance_score, WEIGHTS.attendance)),
         RMul(donor_independence_score, WEIGHTS.donor_independence))

\* the five component scores of lines 64-74 (locals of the call), or the exception raised
ComponentScores(official_data, promise_analysis, influence_analysis, votes_data, donations_data, red_flags) ==
    LET transparency == _calculate_transparency_score(official_data, red_flags)
    IN  IF IsRaised(transparency) THEN transparency
        ELSE [tag |-> "locals",
              promise_keeping |-> _calculate_promise_keeping_score(promise_analysis),
              transparency |-> transparency.v,
              attendance |-> _calculate_attendance_score(votes_data),
              donor_independence |->
                  _calculate_donor_independence_score(donations_data, influence_analysis),
              constituent_alignment |->
                  _calculate_constituent_alignment_score(votes_data, official_data)]

calculate_accountability_score(official_data, promise_analysis, influence_analysis, votes_data, donations_data, red_flags) ==
    Bind(ComponentScores(official_data, promise_analysis, influence_analysis, votes_data,
                         donations_data, red_flags),
         LAMBDA c :
    IF IsRaised(c) THEN c
    ELSE
    Bind(Round1(WeightedSum(c.promise_keeping, c.transparency, c.constituent_alignment,
                            c.attendance, c.donor_independence)),
         LAMBDA overall_score :
             [tag |-> "dict",
              overall_score |-> overall_score,
              grade |-> _get_grade(overall_score),
              components |->
                [promise_keeping |-> Component(c.promise_keeping, WEIGHTS.promise_keeping),
                 transparency |->
                    WithFields(Component(c.transparency, WEIGHTS.transparency),
                               [metrics |-> _get_transparency_metrics(official_data, red_flags)]),
                 attendance |->
                    WithFields(Component(c.attendance, WEIGHTS.attendance),
                               [missed_votes_pct |-> _get_missed_votes_pct(votes_data)]),
                 donor_independence |->
                    WithFields(Component(c.donor_independence, WEIGHTS.donor_independence),
                               [corporate_pac_pct |-> _get_corporate_pac_pct(donations_data),
                                influence_score |-> IF Given(influence_analysis)
                                                    THEN influence_analysis.influence_score
                                                    ELSE RInt(0)]),
                 constituent_alignment |->
                    WithFields(Component(c.constituent_alignment, WEIGHTS.constituent_alignment),
                               [votes_with_district |->
                                    _get_district_alignment_pct(votes_data, official_data)])],
              trend |-> _calculate_trend(overall_score),
              peer_comparison |-> _calculate_peer_comparison(overall_score)]))

(***************************************************************************)
(* The input catalogue: the records a snapshot is built from               *)
(***************************************************************************)
Vote(bill, value) ==
    [id |-> bill.id, billNumber |-> bill.billNumber, title |-> bill.title, date |-> bill.date,
     vote |-> value, billSummary |-> bill.billSummary]

\* tests/test_accountability.py, test_categorize_bill; ProPublica's "question" may be
\* missing, and scrape_votes then stores billSummary: null
Bill_Medicare == [id |-> "rc1", billNumber |-> "HR1", title |-> S_MedicareExpansionAct,
                  date |-> 100, billSummary |-> Str(S_ExpandsMedicare)]
Bill_CleanAir == [id |-> "rc2", billNumber |-> "HR2", title |-> S_CleanAirStandards,
                  date |-> 200, billSummary |-> None]
Bill_HealthEnv == [id |-> "rc3", billNumber |-> "HR3", title |-> S_HealthcareAndEnvironment,
                   date |-> 300, billSummary |-> Absent]

VotingRecord(votes) == [votes |-> votes]

Donor(name, amount, type, industry) ==
    [name |-> name, amount |-> amount, type |-> type, industry |-> industry]

Donations(total, individual, pac, donors, inds) ==
    [tag |-> "dict",
     summary |-> [totalRaised |-> total, individualContributions |-> individual,
                  pacContributions |-> pac],
     topDonors |-> donors, topIndustries |-> inds]

\* a donation snapshot whose lists do not add up to more than was raised
Consistent(d) ==
    /\ SumSeq([i \in 1..Len(d.topDonors) |-> d.topDonors[i].amount]) <= d.summary.totalRaised
    /\ SumSeq([i \in 1..Len(d.topIndustries) |-> d.topIndustries[i].amount])
           <= d.summary.totalRaised
    /\ d.summary.individualContributions + d.summary.pacContributions <= d.summary.totalRaised

ContactInfo(email, phone, website) ==
    [tag |-> "dict", email |-> email, phone |-> phone, website |-> website]

Promise(id, text, category) == [id |-> id, text |-> text, source |-> "campaign", category |-> category]

Stocks(trades, alerts) == [tag |-> "dict", trades |-> trades, conflictAlerts |-> alerts]

\* models/stocks.py, ConflictAlert
Alert_1 == [tradeId |-> "t1", reason |-> "traded ahead of a committee vote", severity |-> "high"]

Repeat(x, n) == [i \in 1..n |-> x]

Snapshot(contact, promises, votes, donations, stocks) ==
    [official |-> [personal |-> [contactInfo |-> contact], promises |-> [items |-> promises]],
     votes |-> votes, donations |-> donations, stocks |-> stocks]

(***************************************************************************)
(* Bounds and the snapshots of the specifications                          *)
(***************************************************************************)
MaxVotes == 1
MaxDonors == 1
MaxEntropy == 2
MaxFor == 8
MaxAgainst == 10
GradeSteps == 2200

ContactInfo_Empty == ContactInfo(None, None, None)
ContactInfo_Full == ContactInfo(Str(S_Email), Str(S_Phone), Str(S_Website))

ContactInfos == { Absent, None, ContactInfo_Empty, ContactInfo_Full }

VoteMenu ==
    { Vote(Bill_Medicare, V_no), Vote(Bill_Medicare, V_not_voting_spaced),
      Vote(Bill_CleanAir, V_yes), Vote(Bill_HealthEnv, V_no) }

VotesByYear ==
    { << VotingRecord(y1), VotingRecord(y2), VotingRecord(<<>>) >> :
        y1 \in SeqsUpTo(VoteMenu, MaxVotes), y2 \in {<<>>, <<Vote(Bill_Medicare, V_no)>>} }

DonorMenu ==
    { Donor(S_PfizerPAC, 20000, "PAC", Absent),
      Donor(S_ExxonEmployees, 20000, "Individual", None) }

IndustryMenu == { [industry |-> Str(S_Pharmaceuticals), amount |-> 20000] }

Donations_None == Donations(0, 0, 0, <<>>, <<>>)
Donations_PharmaPAC ==
    Donations(20000, 0, 20000, <<Donor(S_PfizerPAC, 20000, "PAC", Absent)>>,
              <<[industry |-> Str(S_Pharmaceuticals), amount |-> 20000]>>)
Donations_Individuals == Donations(20000, 15000, 5000, <<>>, <<>>)

DonationsMenu ==
    { d \in { Donations(s[1], s[2], s[3], donors, inds) :
                s \in { <<0, 0, 0>>, <<20000, 0, 20000>>, <<20000, 20000, 0>> },
                donors \in SeqsUpTo(DonorMenu, MaxDonors),
                inds \in SeqsUpTo(IndustryMenu, 1) } : Consistent(d) }

Promise_Healthcare == Promise("p1", S_FightForHealthcare, <<"H","e","a","l","t","h","c","a","r","e">>)

PromisesMenu == { <<>>, <<Promise_Healthcare>> }

Snapshots ==
    { Snapshot(c, p, v, d, Stocks(0, <<>>)) :
        c \in ContactInfos, p \in PromisesMenu, v \in VotesByYear, d \in DonationsMenu }

\* the snapshots a request is repeated on
RerunSnapshots ==
    { Snapshot(c, p, << VotingRecord(y1), VotingRecord(<<>>), VotingRecord(<<>>) >>, d,
               Stocks(0, <<>>)) :
        c \in { ContactInfo_Empty, ContactInfo_Full },
        p \in PromisesMenu,
        y1 \in { <<>>, <<Vote(Bill_Medicare, V_no)>>, <<Vote(Bill_Medicare, V_yes)>>,
                 <<Vote(Bill_Medicare, V_no), Vote(Bill_Medicare, V_not_voting)>> },
        d \in { Donations_None, Donations_PharmaPAC, Donations_Individuals } }

\* tests/test_accountability.py, test_calculate_attendance_score, and the spec's examples
Votes_Example1 ==
    << Vote(Bill_Medicare, V_yes), Vote(Bill_Medicare, V_yes), Vote(Bill_Medicare, V_no),
       Vote(Bill_Medicare, V_yes), Vote(Bill_Medicare, V_not_voting) >>
Votes_Example2 ==
    << Vote(Bill_Medicare, V_yes), Vote(Bill_Medicare, V_no), Vote(Bill_Medicare, V_not_voting),
       Vote(Bill_Medicare, V_present), Vote(Bill_Medicare, V_yes) >>

MissedMenu ==
    { <<>>, <<Vote(Bill_CleanAir, V_not_voting)>>, <<Vote(Bill_CleanAir, V_not_voting_spaced)>>,
      <<Vote(Bill_CleanAir, V_present), Vote(Bill_CleanAir, V_not_voting)>> }

\* long voting records on one bill: s votes for it, c against, then the votes not cast
LongVotesByYear ==
    { << VotingRecord(Repeat(Vote(Bill_Medicare, V_yes), s) \o Repeat(Vote(Bill_Medicare, V_no), c)),
         VotingRecord(m), VotingRecord(<<>>) >> :
        s \in 0..MaxFor, c \in 0..MaxAgainst, m \in MissedMenu }
    \cup { << VotingRecord(y1), VotingRecord(<<>>), VotingRecord(<<>>) >> :
             y1 \in {Votes_Example1, Votes_Example2} }

\* the rest of the snapshot of a long voting record: contact, donations, stocks
Profiles ==
    { <<ContactInfo_Empty, Donations_PharmaPAC, Stocks(51, <<Alert_1>>)>>,
      <<ContactInfo_Full, Donations_PharmaPAC, Stocks(0, <<>>)>>,
      <<ContactInfo_Full, Donations_None, Stocks(0, <<>>)>> }

VotesSnapshots ==
    { Snapshot(p[1], <<Promise_Healthcare>>, v, p[2], p[3]) :
        v \in LongVotesByYear, p \in Profiles }

GradeScores == { Rat(n, 20) : n \in -100..GradeSteps }

(***************************************************************************)
(* The state: one request of api/officials.py get_accountability_score     *)
(***************************************************************************)
VARIABLES
    snapshot,            \* the records the handler reads: profile, votes by year, donations, stocks
    pc,                  \* the handler's position
    run,                 \* 1, or 2 when the request is made again on the same snapshot
    promise_analysis,    \* None until computed; then a dict, or the exception raised
    influence_analysis,
    nested_influence,    \* the influence analysis get_red_flags obtained for itself
    red_flags,
    component_scores,    \* the five scores inside calculate_accountability_score
    score,
    prev,                \* the results of the first request, once the second has started
    grade_arg,           \* the argument of a direct call of _get_grade
    grade_ret,           \* and what it returned
    args,                \* the function and the arguments of a direct call of an engine function
    ret,                 \* and what it returned
    auth,                \* the admin login: stored tokens and sessions, the calls in flight, what was answered
    job                  \* one run of update_all_officials: the job object, its stored record, the member tasks

vars == <<snapshot, pc, run, promise_analysis, influence_analysis, nested_influence, red_flags,
          component_scores, score, prev, grade_arg, grade_ret, args, ret, auth, job>>

\* try: ... except Exception: x = None  (officials.py 378-389, 401-405)
OrNone(x) == IF IsRaised(x) THEN None ELSE x

\* the votes of [current_year, current_year - 1] (officials.py 391-395)
TwoYears(votes) == SubSeq(votes, 1, 2)

Fresh ==
    /\ pc = "promise"
    /\ promise_analysis = None
    /\ influence_analysis = None
    /\ nested_influence = None
    /\ red_flags = None
    /\ component_scores = None
    /\ score = None

InitOn(snapshots) ==
    /\ snapshot \in snapshots
    /\ run = 1
    /\ prev = None
    /\ grade_arg = None
    /\ grade_ret = None
    /\ args = None
    /\ ret = None
    /\ auth = None
    /\ job = None
    /\ Fresh

Init == InitOn(Snapshots)

InitRerun == InitOn(RerunSnapshots)

InitVotes == InitOn(VotesSnapshots)

InitGrade ==
    /\ snapshot = None
    /\ run = 1
    /\ prev = None
    /\ pc = "grade"
    /\ promise_analysis = None
    /\ influence_analysis = None
    /\ nested_influence = None
    /\ red_flags = None
    /\ component_scores = None
    /\ score = None
    /\ grade_arg \in GradeScores
    /\ grade_ret = None
    /\ args = None
    /\ ret = None
    /\ auth = None
    /\ job = None

AnalyzePromiseKeeping ==
    /\ pc = "promise"
    /\ promise_analysis' = analyze_promise_keeping(snapshot.official.promises, snapshot.votes)
    /\ pc' = "influence"
    /\ UNCHANGED <<auth, job, snapshot, run, influence_analysis, nested_influence, red_flags,
                   component_scores, score, prev, grade_arg, grade_ret, args, ret>>

CalculateInfluenceScore ==
    /\ pc = "influence"
    /\ influence_analysis' = calculate_influence_score(snapshot.donations, TwoYears(snapshot.votes))
    /\ pc' = "red_flags"
    /\ UNCHANGED <<auth, job, snapshot, run, promise_analysis, nested_influence, red_flags,
                   component_scores, score, prev, grade_arg, grade_ret, args, ret>>

\* get_influence_analysis fails before the engine is reached (its reads of the store)
InfluenceUnavailable ==
    /\ pc = "influence"
    /\ influence_analysis' = UpstreamError
    /\ pc' = "red_flags"
    /\ UNCHANGED <<auth, job, snapshot, run, promise_analysis, nested_influence, red_flags,
                   component_scores, score, prev, grade_arg, grade_ret, args, ret>>

\* get_red_flags: it asks for both analyses again, and its influence analysis may fail or
\* succeed whatever the handler's own did
DetectRedFlags ==
    /\ pc = "red_flags"
    /\ \E entropy \in 1..MaxEntropy, available \in BOOLEAN :
          LET influence == IF available
                           THEN calculate_influence_score(snapshot.donations,
                                                          TwoYears(snapshot.votes))
                           ELSE None
          IN  /\ nested_influence' = influence
              /\ red_flags' = detect_red_flags(snapshot.official, OrNone(promise_analysis),
                                               nested_influence', TwoYears(snapshot.votes),
                                               snapshot.donations, snapshot.stocks, entropy)
    /\ pc' = "score"
    /\ UNCHANGED <<auth, job, snapshot, run, promise_analysis, influence_analysis, component_scores,
                   score, prev, grade_arg, grade_ret, args, ret>>

CalculateAccountabilityScore ==
    /\ pc = "score"
    /\ component_scores' = ComponentScores(snapshot.official, OrNone(promise_analysis),
                                           OrNone(influence_analysis),
                                           TwoYears(snapshot.votes), snapshot.donations,
                                           OrNone(red_flags))
    /\ score' = calculate_accountability_score(snapshot.official, OrNone(promise_analysis),
                                               OrNone(influence_analysis),
                                               TwoYears(snapshot.votes), snapshot.donations,
                                               OrNone(red_flags))
    /\ pc' = "done"
    /\ UNCHANGED <<auth, job, snapshot, run, promise_analysis, influence_analysis, nested_influence,
                   red_flags, prev, grade_arg, grade_ret, args, ret>>

\* the same request again, on the same snapshot
Rerun ==
    /\ pc = "done"
    /\ run = 1
    /\ prev' = [promise_analysis |-> promise_analysis,
                influence_analysis |-> influence_analysis,
                nested_influence |-> nested_influence,
                red_flags |-> red_flags,
                component_scores |-> component_scores,
                score |-> score]
    /\ run' = 2
    /\ pc' = "promise"
    /\ promise_analysis' = None
    /\ influence_analysis' = None
    /\ nested_influence' = None
    /\ red_flags' = None
    /\ component_scores' = None
    /\ score' = None
    /\ UNCHANGED <<auth, job, snapshot, grade_arg, grade_ret, args, ret>>

\* a direct call of _get_grade
GetGrade ==
    /\ pc = "grade"
    /\ grade_ret' = _get_grade(grade_arg)
    /\ pc' = "graded"
    /\ UNCHANGED <<auth, job, snapshot, run, promise_analysis, influence_analysis, nested_influence,
                   red_flags, component_scores, score, prev, grade_arg, args, ret>>

Next ==
    \/ AnalyzePromiseKeeping
    \/ CalculateInfluenceScore
    \/ InfluenceUnavailable
    \/ DetectRedFlags
    \/ CalculateAccountabilityScore

NextRerun ==
    \/ AnalyzePromiseKeeping
    \/ CalculateInfluenceScore
    \/ InfluenceUnavailable
    \/ DetectRedFlags
    \/ CalculateAccountabilityScore
    \/ Rerun

NextGrade == GetGrade

Spec == Init /\ [][Next]_vars

SpecRerun == InitRerun /\ [][NextRerun]_vars

SpecVotes == InitVotes /\ [][Next]_vars

SpecGrade == InitGrade /\ [][NextGrade]_vars

(***************************************************************************)
(* Properties                                                              *)
(***************************************************************************)
\* the flags of a report without their ids
WithoutIds(report) ==
    IF IsDict(report)
    THEN [report EXCEPT !.flags = [k \in 1..Len(report.flags) |->
                                      [f \in DOMAIN report.flags[k] \ {"id"} |-> report.flags[k][f]]]]
    ELSE report

\* the second request has ended, and the same upstream analyses were available to both
SameInputsTwice ==
    /\ pc = "done"
    /\ run = 2
    /\ IsRaised(influence_analysis) <=> IsRaised(prev.influence_analysis)
    /\ nested_influence = None <=> prev.nested_influence = None

\* C1: a request repeated on the same snapshot, with the same upstream analyses available,
\* returns the same promise analysis, influence analysis, red-flag report (every field of
\* every flag, its id included) and accountability score.
C1_Idempotent ==
    SameInputsTwice
    => /\ promise_analysis = prev.promise_analysis
       /\ influence_analysis = prev.influence_analysis
       /\ red_flags = prev.red_flags
       /\ score = prev.score

\* two requests on one snapshot whose reports differ, and differ in the flag ids only
C1_OnlyIdsDiffer ==
    /\ SameInputsTwice
    /\ red_flags # prev.red_flags
    /\ WithoutIds(red_flags) = WithoutIds(prev.red_flags)
    /\ promise_analysis = prev.promise_analysis
    /\ influence_analysis = prev.influence_analysis
    /\ score = prev.score

\* x is y rounded to one decimal: a whole number of tenths, at most 0.05 from y
NearestTenth(x, y) ==
    /\ 10 % x[2] = 0
    /\ RLe(RSub(x, y), Rat(1, 20))
    /\ RLe(RSub(y, x), Rat(1, 20))

ComponentsInRange(c) ==
    /\ InRange(c.promise_keeping, 0, 100)
    /\ InRange(c.transparency, 0, 100)
    /\ InRange(c.attendance, 0, 100)
    /\ InRange(c.donor_independence, 0, 100)
    /\ InRange(c.constituent_alignment, 0, 100)

\* 0.40 p + 0.20 t + 0.20 c + 0.10 a + 0.10 d
ClaimedSum(c) ==
    RSum(<< RMul(Rat(40, 100), c.promise_keeping), RMul(Rat(20, 100), c.transparency),
            RMul(Rat(20, 100), c.constituent_alignment), RMul(Rat(10, 100), c.attendance),
            RMul(Rat(10, 100), c.donor_independence) >>)

\* C2: the weights are 0.40, 0.20, 0.20, 0.10 and 0.10 and sum to exactly 1; the
\* overall_score of every score returned is the weighted sum of the five component scores
\* rounded to one decimal, and it is in [0,100] whenever the five components are.
C2_WeightedSum ==
    /\ WEIGHTS = [promise_keeping |-> Rat(40, 100), transparency |-> Rat(20, 100),
                  constituent_alignment |-> Rat(20, 100), attendance |-> Rat(10, 100),
                  donor_independence |-> Rat(10, 100)]
    /\ RSum(<< WEIGHTS.promise_keeping, WEIGHTS.transparency, WEIGHTS.constituent_alignment,
               WEIGHTS.attendance, WEIGHTS.donor_independence >>) = RInt(1)
    /\ (pc = "done" /\ IsDict(score))
       => /\ NearestTenth(score.overall_score, ClaimedSum(component_scores))
          /\ ComponentsInRange(component_scores) => InRange(score.overall_score, 0, 100)

\* a score returned whose components are in range and whose weighted sum, not a whole
\* number of twentieths, had to be rounded
C2_Rounded ==
    /\ pc = "done"
    /\ IsDict(score)
    /\ ComponentsInRange(component_scores)
    /\ IsDict(influence_analysis)
    /\ 20 % ClaimedSum(component_scores)[2] # 0

\* C3: the influence_score calculate_influence_score returns, and its donation_concentration,
\* avg_voting_alignment and suspicious_timing_rate, are each in [0,100].
C3_InfluenceInRange ==
    IsDict(influence_analysis)
    => /\ InRange(influence_analysis.influence_score, 0, 100)
       /\ InRange(influence_analysis.analysis.donation_concentration, 0, 100)
       /\ InRange(influence_analysis.analysis.avg_voting_alignment, 0, 100)
       /\ InRange(influence_analysis.analysis.suspicious_timing_rate, 0, 100)

\* C4: each of the five component scores calculate_accountability_score computes is in
\* [0,100].
C4_ComponentsInRange ==
    (pc = "done" /\ component_scores.tag = "locals") => ComponentsInRange(component_scores)

\* C5: no engine function raises: the promise analysis, the influence analysis, the
\* red-flag report and the accountability score are results, whatever is missing or null
\* in the snapshot and whichever analyses are None.
C5_NeverRaises ==
    /\ ~IsRaised(promise_analysis)
    /\ influence_analysis # AttributeError
    /\ ~IsRaised(red_flags)
    /\ ~IsRaised(component_scores)
    /\ ~IsRaised(score)

\* the second of two requests has ended; the influence analysis was available to the
\* first, which returned a score, and is unavailable to the second
InfluenceLost ==
    /\ pc = "done"
    /\ run = 2
    /\ IsDict(prev.influence_analysis)
    /\ IsDict(prev.score)
    /\ IsRaised(influence_analysis)

\* 100 * individualContributions / totalRaised, and 50 when nothing was raised
IndividualPct(donations) ==
    IF donations.summary.totalRaised = 0 THEN RInt(50)
    ELSE Rat(100 * donations.summary.individualContributions, donations.summary.totalRaised)

\* C6: when the influence analysis is unavailable the score is still computed and returned;
\* promise_keeping, transparency, attendance and constituent_alignment are what they are
\* with the analysis, and donor_independence is the share of individual contributions,
\* 100 * individualContributions / totalRaised (50 only when nothing was raised).
C6_DegradesDonorIndependence ==
    InfluenceLost
    => /\ IsDict(score)
       /\ component_scores.promise_keeping = prev.component_scores.promise_keeping
       /\ component_scores.transparency = prev.component_scores.transparency
       /\ component_scores.attendance = prev.component_scores.attendance
       /\ component_scores.constituent_alignment = prev.component_scores.constituent_alignment
       /\ component_scores.donor_independence = IndividualPct(snapshot.donations)

\* the influence analysis is lost and donor_independence changes, to a score that is not 50
C6_Changed ==
    /\ InfluenceLost
    /\ component_scores.donor_independence # prev.component_scores.donor_independence
    /\ component_scores.donor_independence # RInt(50)

\* C6 as stated: without the influence analysis donor_independence is the neutral 50.0
C6_NeutralDefault ==
    InfluenceLost => component_scores.donor_independence = RInt(50)

\* C7: a promise with s supporting and c contradicting votes is not_addressed when
\* s + c = 0; otherwise broken when c/(s+c) >= 0.7; otherwise in_progress when
\* c/(s+c) >= 0.4; otherwise kept when s >= 3; otherwise in_progress.
C7_PromiseStatus ==
    IsDict(promise_analysis)
    => \A i \in 1..Len(promise_analysis.promises) :
          LET p == promise_analysis.promises[i]
              s == p.times_voted_for
              c == p.times_voted_against
          IN  p.status = IF s + c = 0 THEN "not_addressed"
                         ELSE IF 10 * c >= 7 * (s + c) THEN "broken"
                         ELSE IF 10 * c >= 4 * (s + c) THEN "in_progress"
                         ELSE IF s >= 3 THEN "kept"
                         ELSE "in_progress"

\* a promise analysed with 3 votes for it and 7 against: the rate is exactly 0.7
C7_ExactlySevenTenths ==
    /\ IsDict(promise_analysis)
    /\ \E i \in 1..Len(promise_analysis.promises) :
          /\ promise_analysis.promises[i].times_voted_for = 3
          /\ promise_analysis.promises[i].times_voted_against = 7
          /\ promise_analysis.promises[i].status = "broken"

GradeRank(grade) ==
    CASE grade = "A" -> 4 [] grade = "B" -> 3 [] grade = "C" -> 2 [] grade = "D" -> 1
      [] grade = "F" -> 0

\* C8: _get_grade returns A for a score >= 90, B for 80 <= score < 90, C for
\* 70 <= score < 80, D for 60 <= score < 70 and F below 60; no lower score gets a better
\* grade.
C8_Grade ==
    pc = "graded"
    => /\ grade_ret = IF RGe(grade_arg, RInt(90)) THEN "A"
                      ELSE IF RGe(grade_arg, RInt(80)) THEN "B"
                      ELSE IF RGe(grade_arg, RInt(70)) THEN "C"
                      ELSE IF RGe(grade_arg, RInt(60)) THEN "D"
                      ELSE "F"
       /\ \A lower \in GradeScores :
             RLe(lower, grade_arg) => GradeRank(_get_grade(lower)) <= GradeRank(grade_ret)

\* _get_grade has returned B for a score of exactly 80
C8_ExactlyEighty ==
    /\ pc = "graded"
    /\ grade_arg = RInt(80)
    /\ grade_ret = "B"

\* the detectors, in the order detect_red_flags runs them
DetectorRank(type) ==
    CASE type = "broken_promise" -> 1
      [] type = "suspicious_timing" -> 2
      [] type = "excessive_missed_votes" -> 3
      [] type \in {"low_accessibility", "low_transparency"} -> 4
      [] type \in {"stock_conflict", "excessive_trading"} -> 5
      [] type \in {"corporate_pac_dependency", "donor_concentration"} -> 6

SeverityTier(severity) ==
    CASE severity = "critical" -> 1 [] severity = "high" -> 2 [] severity = "medium" -> 3
      [] severity = "low" -> 4

\* C9: in the flags of a report every critical flag is before every high one, every high
\* before every medium, every medium before every low; two flags of one severity are in
\* the order they were produced: by detector (broken promises, suspicious timing,
\* attendance, transparency, stock conflicts, donor concentration) and, within a
\* detector, by creation.
C9_SeverityFirst ==
    IsDict(red_flags)
    => \A i, j \in 1..Len(red_flags.flags) :
          i < j =>
            LET a == red_flags.flags[i]
                b == red_flags.flags[j]
            IN  /\ SeverityTier(a.severity) <= SeverityTier(b.severity)
                /\ a.severity = b.severity
                   => /\ DetectorRank(a.type) <= DetectorRank(b.type)
                      /\ a.id.n < b.id.n

\* a report the sort has reordered, with two flags of one severity from different detectors
C9_Reordered ==
    /\ IsDict(red_flags)
    /\ \E i, j \in 1..Len(red_flags.flags) :
          i < j /\ red_flags.flags[i].id.n > red_flags.flags[j].id.n
    /\ \E i, j \in 1..Len(red_flags.flags) :
          /\ i < j
          /\ red_flags.flags[i].severity = red_flags.flags[j].severity
          /\ DetectorRank(red_flags.flags[i].type) < DetectorRank(red_flags.flags[j].type)

\* the votes the score is computed over, and those of them not cast
SuppliedVotes == AllVotes(TwoYears(snapshot.votes))

NotCast ==
    {i \in 1..Len(SuppliedVotes) :
        SuppliedVotes[i].vote \in {V_not_voting, V_not_voting_spaced, V_present}}

\* C10: the attendance score is 100 * (votes neither not-voting nor present) / (votes),
\* and 50 when there is no vote; missed_votes_pct is 100 * (votes not-voting or present) /
\* (votes), to one decimal; [yes,yes,no,yes,not-voting] scores 80 and
\* [yes,no,not-voting,present,yes] has 40 missed.
C10_Attendance ==
    (pc = "done" /\ IsDict(score))
    => LET total == Len(SuppliedVotes)
           missed == Cardinality(NotCast)
       IN  /\ component_scores.attendance =
                 IF total = 0 THEN RInt(50) ELSE Rat(100 * (total - missed), total)
           /\ total > 0 => NearestTenth(score.components.attendance.missed_votes_pct,
                                        Rat(100 * missed, total))
           /\ snapshot.votes[1].votes = Votes_Example1
              => component_scores.attendance = RInt(80)
           /\ snapshot.votes[1].votes = Votes_Example2
              => score.components.attendance.missed_votes_pct = RInt(40)

\* the score of the record [yes,no,not-voting,present,yes]
C10_Example ==
    /\ pc = "done"
    /\ IsDict(score)
    /\ snapshot.votes[1].votes = Votes_Example2
    /\ score.components.attendance.missed_votes_pct = RInt(40)
    /\ component_scores.attendance = RInt(60)

(***************************************************************************)
(* Direct calls of the engine's functions, as the tests make them          *)
(***************************************************************************)
MaxInfluenceSteps == 40

\* an influence analysis as far as the aggregator reads it
InfluenceWith(influence_score) == [tag |-> "dict", influence_score |-> influence_score]

\* tests/test_accountability.py, test_calculate_donor_independence_score
Donations_Test == Donations(1000000, 700000, 300000, <<>>, <<>>)

SummaryMenu ==
    { None, Donations_None, Donations_Test, Donations_Individuals,
      Donations(3, 1, 2, <<>>, <<>>), Donations(3, 2, 1, <<>>, <<>>),
      Donations(20000, 0, 20000, <<>>, <<>>), Donations(20000, 20000, 0, <<>>, <<>>) }

InfluenceMenu ==
    {None} \cup { InfluenceWith(Rat(5 * n, 2)) : n \in 0..MaxInfluenceSteps }

DonorIndependenceCalls ==
    { [fn |-> "_calculate_donor_independence_score", donations_data |-> d,
       influence_analysis |-> a] : d \in SummaryMenu, a \in InfluenceMenu }

\* tests/test_accountability.py, test_donation_concentration_calculation: four industries
\* with 100,000, 50,000, 30,000 and 20,000 of 250,000 raised
Donations_FourIndustries ==
    Donations(250000, 0, 0, <<>>,
              << [industry |-> Str(<<"P","h","a","r","m","a","c","e","u","t","i","c","a","l","s">>), amount |-> 100000],
                 [industry |-> Str(<<"O","i","l"," ","&"," ","G","a","s">>), amount |-> 50000],
                 [industry |-> Str(<<"T","e","c","h","n","o","l","o","g","y">>), amount |-> 30000],
                 [industry |-> Str(<<"B","a","n","k","i","n","g">>), amount |-> 20000] >>)

\* a contributor no keyword of the tables matches (test_categorize_donation_industry)
Donor_Unclassified == Donor(<<"R","a","n","d","o","m"," ","C","o","m","p","a","n","y">>, 5000, "Individual", None)
Donations_Unclassified == Donations(20000, 20000, 0, <<Donor_Unclassified>>, <<>>)

\* contributions of twelve industries: ten industry totals and two contributors
Donations_TwelveIndustries ==
    Donations(900000, 0, 0,
              << Donor(<<"U","n","i","o","n"," ","o","f"," ","W","o","r","k","e","r","s">>, 20000, "PAC", None),
                 Donor(<<"E","n","v","i","r","o","n","m","e","n","t"," ","F","u","n","d">>, 10000, "PAC", None) >>,
              << [industry |-> Str(<<"P","h","a","r","m","a","c","e","u","t","i","c","a","l","s">>), amount |-> 120000],
                 [industry |-> Str(<<"O","i","l"," ","&"," ","G","a","s">>), amount |-> 110000],
                 [industry |-> Str(<<"T","e","c","h","n","o","l","o","g","y">>), amount |-> 100000],
                 [industry |-> Str(<<"B","a","n","k","i","n","g">>), amount |-> 90000],
                 [industry |-> Str(<<"D","e","f","e","n","s","e">>), amount |-> 80000],
                 [industry |-> Str(<<"H","o","s","p","i","t","a","l","s">>), amount |-> 70000],
                 [industry |-> Str(<<"F","a","r","m","i","n","g">>), amount |-> 60000],
                 [industry |-> Str(<<"T","e","l","e","c","o","m">>), amount |-> 50000],
                 [industry |-> Str(<<"E","d","u","c","a","t","i","o","n">>), amount |-> 40000],
                 [industry |-> Str(<<"T","r","a","n","s","p","o","r","t","a","t","i","o","n">>), amount |-> 30000] >>)

\* a pharmaceutical total above 10,000 whose only donation is below it
Donations_SmallPharma ==
    Donations(40000, 0, 40000, <<Donor(<<"P","f","i","z","e","r"," ","P","A","C">>, 5000, "PAC", Absent)>>,
              <<[industry |-> Str(<<"P","h","a","r","m","a","c","e","u","t","i","c","a","l","s">>), amount |-> 20000]>>)

\* a pharmaceutical total with no donation at all
Donations_PharmaTotalOnly ==
    Donations(40000, 0, 40000, <<>>, <<[industry |-> Str(<<"P","h","a","r","m","a","c","e","u","t","i","c","a","l","s">>), amount |-> 20000]>>)

\* a large oil and gas donation, a small pharmaceutical one and an unclassified one
Donations_Mixed ==
    Donations(60000, 25000, 35000,
              << Donor(<<"E","x","x","o","n"," ","E","m","p","l","o","y","e","e","s">>, 20000, "Individual", None),
                 Donor(<<"P","f","i","z","e","r"," ","P","A","C">>, 5000, "PAC", Absent),
                 Donor_Unclassified >>,
              <<>>)

InfluenceDonationsMenu ==
    { Donations_None, Donations_PharmaPAC, Donations_FourIndustries, Donations_Unclassified,
      Donations_TwelveIndustries, Donations_SmallPharma, Donations_PharmaTotalOnly,
      Donations_Mixed }

Bill_Energy == [id |-> "rc4", billNumber |-> "HR4", title |-> <<"E","n","e","r","g","y"," ","I","n","d","e","p","e","n","d","e","n","c","e"," ","A","c","t">>,
                date |-> 400, billSummary |-> Absent]

MaxFavorable == 21

InfluenceVotesMenu ==
    { <<>>, Repeat(Vote(Bill_Medicare, V_no), MaxFavorable), <<Vote(Bill_Medicare, V_no)>>, <<Vote(Bill_Medicare, V_yes)>>,
      <<Vote(Bill_Medicare, V_not_voting)>>,
      <<Vote(Bill_Medicare, V_no), Vote(Bill_Medicare, V_no)>>,
      <<Vote(Bill_Medicare, V_no), Vote(Bill_Energy, V_yes)>>,
      <<Vote(Bill_Energy, V_no), Vote(Bill_CleanAir, V_no)>> }

InfluenceCalls ==
    { [fn |-> "calculate_influence_score", donations_data |-> d,
       votes_data |-> << VotingRecord(y1), VotingRecord(y2) >>] :
        d \in InfluenceDonationsMenu, y1 \in InfluenceVotesMenu,
        y2 \in { <<>>, <<Vote(Bill_Medicare, V_no)>> } }

MaxBroken == 7

\* the entry _analyze_single_promise returns for a promise with s supporting and c
\* contradicting votes among its related votes
PromiseEntry(id, s, c) ==
    LET supporting_votes == Repeat(Vote(Bill_Medicare, V_yes), s)
        contradicting_votes == Repeat(Vote(Bill_Medicare, V_no), c)
        against == Take(contradicting_votes, MaxContradictingEvidence)
        for == Take(supporting_votes, MaxSupportingEvidence)
    IN  [tag |-> "dict",
         promise_id |-> id,
         category |-> <<"h","e","a","l","t","h","c","a","r","e">>,
         promise_text |-> <<"E","x","p","a","n","d"," ","h","e","a","l","t","h","c","a","r","e"," ","a","c","c","e","s","s">>,
         promise_date |-> "campaign",
         source_url |-> "campaign",
         status |-> _determine_promise_status(supporting_votes, contradicting_votes),
         evidence |-> [k \in 1..Len(against) |-> Evidence(against[k], TRUE)]
                      \o [k \in 1..Len(for) |-> Evidence(for[k], FALSE)],
         times_voted_against |-> c,
         times_voted_for |-> s]

\* the analysis analyze_promise_keeping returns for the entries (lines 79-104)
AnalysisOf(analyzed_promises) ==
    [tag |-> "dict",
     summary |-> [total_promises |-> Len(analyzed_promises),
                  kept |-> CountStatus(analyzed_promises, "kept"),
                  broken |-> CountStatus(analyzed_promises, "broken"),
                  in_progress |-> CountStatus(analyzed_promises, "in_progress"),
                  not_addressed |-> CountStatus(analyzed_promises, "not_addressed"),
                  promise_keeping_score |->
                      Round1(IF Len(analyzed_promises) > 0
                             THEN Rat(100 * CountStatus(analyzed_promises, "kept"),
                                      Len(analyzed_promises))
                             ELSE RInt(0))],
     promises |-> SortedBy(analyzed_promises,
                           [i \in 1..Len(analyzed_promises) |->
                              -analyzed_promises[i].times_voted_against])]

\* tests/test_accountability.py, test_detect_broken_promise_flags
PromiseAnalysis_Test ==
    [tag |-> "dict",
     summary |-> [total_promises |-> 10, broken |-> 7, kept |-> 2, in_progress |-> 1,
                  not_addressed |-> 0],
     promises |-> << [promise_id |-> "p1", category |-> <<"h","e","a","l","t","h","c","a","r","e">>,
                      promise_text |-> <<"E","x","p","a","n","d"," ","h","e","a","l","t","h","c","a","r","e"," ","a","c","c","e","s","s">>, status |-> "broken",
                      times_voted_against |-> 12,
                      evidence |-> <<[date |-> 115], [date |-> 420]>>] >>]

\* <<supporting, contradicting>> votes: broken with 12, 5 and 4 votes against, in progress
\* with 5 and 9 votes against, kept, not addressed
TallyMenu == { <<0, 12>>, <<0, 5>>, <<0, 4>>, <<5, 5>>, <<4, 9>>, <<3, 0>>, <<0, 0>> }

\* b broken promises voted against 5, 6, ... times, k kept ones, and at most one promise
\* in progress that was voted against 5 times
ManyPromises(b, k, p) ==
    [i \in 1..b |-> PromiseEntry("b", 0, 4 + i)] \o Repeat(PromiseEntry("k", 3, 0), k)
        \o Repeat(PromiseEntry("p", 5, 5), p)

PromiseAnalyses ==
    { AnalysisOf(<<>>), PromiseAnalysis_Test }
    \cup { AnalysisOf(<<PromiseEntry("p1", t[1], t[2])>>) : t \in TallyMenu }
    \cup { AnalysisOf(<<PromiseEntry("p1", t[1], t[2]), PromiseEntry("p2", u[1], u[2])>>) :
             t \in TallyMenu, u \in TallyMenu }
    \cup { AnalysisOf(ManyPromises(b, k, p)) : b \in 1..MaxBroken, k \in 0..MaxBroken, p \in 0..1 }

BrokenPromiseCalls ==
    { [fn |-> "_detect_broken_promise_flags", promise_analysis |-> a] : a \in PromiseAnalyses }

MaxTrades == 52
MaxAlerts == 12

\* models/stocks.py, ConflictAlert: the alert of the i-th conflicting trade
Alert(i, severity) == [tradeId |-> i, reason |-> "traded ahead of a committee vote", severity |-> severity]

StockConflictCalls ==
    { [fn |-> "_detect_stock_conflicts",
       stocks_data |-> Stocks(t, [i \in 1..n |-> Alert(i, s)])] :
        t \in 0..MaxTrades, n \in 0..MaxAlerts, s \in {"low", "high"} }

MaxCast == 19
MaxMissed == 6

\* tests/test_accountability.py, test_detect_attendance_flags: 3 missed of 6
Votes_AttendanceTest ==
    << Vote(Bill_Medicare, V_yes), Vote(Bill_Medicare, V_no), Vote(Bill_Medicare, V_not_voting),
       Vote(Bill_Medicare, V_not_voting), Vote(Bill_Medicare, V_not_voting),
       Vote(Bill_Medicare, V_yes) >>

\* two yearly records: c votes cast and n not-voting, then s "not voting" and p present
AttendanceCalls ==
    { [fn |-> "_detect_attendance_flags",
       votes_data |-> << VotingRecord(Repeat(Vote(Bill_Medicare, V_yes), c)
                                      \o Repeat(Vote(Bill_Medicare, V_not_voting), n)),
                         VotingRecord(Repeat(Vote(Bill_Medicare, V_not_voting_spaced), s)
                                      \o Repeat(Vote(Bill_Medicare, V_present), p)) >>] :
        c \in 0..MaxCast, n \in 0..MaxMissed, s \in 0..1, p \in 0..1 }
    \cup { [fn |-> "_detect_attendance_flags", votes_data |-> <<>>],
           [fn |-> "_detect_attendance_flags",
            votes_data |-> <<VotingRecord(Votes_AttendanceTest)>>] }

MaxDonorCount == 12

\* tests/test_accountability.py, test_detect_donor_concentration_flags
Donations_ConcentrationTest ==
    Donations(1000000, 150000, 850000,
              [i \in 1..10 |-> Donor(<<"D","o","n","o","r">>, 10000 * (11 - i), "PAC", Absent)], <<>>)

\* n contributors in the order of the OpenSecrets ranking, largest first: one gave `most`,
\* the others 1 each, of 100 raised, `pac` of them from PACs
RankedDonations(n, most, pac) ==
    Donations(100, 100 - pac, pac,
              [i \in 1..n |-> Donor(<<"D","o","n","o","r">>, IF i = 1 THEN most ELSE 1, "PAC", Absent)], <<>>)

DonorConcentrationCalls ==
    { [fn |-> "_detect_donor_concentration_flags", donations_data |-> d] :
        d \in { RankedDonations(n, most, pac) :
                  n \in 0..MaxDonorCount, most \in {1, 60, 61, 70, 71},
                  pac \in {0, 59, 60, 69, 70, 79, 80, 100} }
              \cup { Donations_None, Donations_ConcentrationTest } }

MaxCategories == 2

\* the categories categorize_bill can return that a rule or a relevance set names, and "other"
CategoryMenu ==
    { "healthcare", "environment", "energy", "technology", "economy", "defense", "labor",
      "other" }

\* a bill's categories: up to MaxCategories of them, none twice
CategoryLists ==
    { c \in SeqsUpTo(CategoryMenu, MaxCategories) :
        \A i, j \in 1..Len(c) : i # j => c[i] # c[j] }

FavorableCalls ==
    { [fn |-> "is_vote_favorable_to_industry", vote |-> v, bill_categories |-> c,
       industry |-> k] :
        v \in {V_yes, V_no, V_not_voting, V_present}, c \in CategoryLists,
        k \in { industries[i].key : i \in 1..Len(industries) } \cup {"other"} }

\* donor names: those of test_categorize_donation_industry, the empty name, and names
\* with keywords of two industries
DonorNames ==
    { <<"P","f","i","z","e","r"," ","P","A","C">>, <<"E","x","x","o","n"," ","E","m","p","l","o","y","e","e","s">>, <<"G","o","o","g","l","e"," ","L","L","C">>, <<"R","a","n","d","o","m"," ","C","o","m","p","a","n","y">>, S_Empty,
      <<"E","X","X","O","N"," ","P","H","A","R","M","A">>, <<"B","a","n","k"," ","o","f"," ","H","e","a","l","t","h">>, <<"O","i","l"," ","T","e","c","h"," ","U","n","i","o","n">> }

\* existing labels: none, the empty one, and labels matching no, one and two industries
IndustryLabels ==
    { None, Str(S_Empty), Str(<<"P","h","a","r","m","a","c","e","u","t","i","c","a","l","s">>), Str(<<"O","i","l"," ","&"," ","G","a","s">>), Str(<<"M","i","s","c">>),
      Str(<<"H","e","a","l","t","h"," ","T","e","c","h","n","o","l","o","g","y">>), Str(<<"D","E","F","E","N","S","E">>), Str(<<"F","a","r","m"," ","C","r","e","d","i","t"," ","B","a","n","k","s">>) }

CategorizeCalls ==
    { [fn |-> "categorize_donation_industry", donor_name |-> n, current_industry |-> l] :
        n \in DonorNames, l \in IndustryLabels }

MaxYes == 3
MaxNo == 2

Bill_CleanAirAct == [id |-> "rc5", billNumber |-> "HR5", title |-> <<"C","l","e","a","n"," ","A","i","r"," ","S","t","a","n","d","a","r","d","s">>,
                     date |-> 500, billSummary |-> Str(<<"S","e","t","s"," ","p","o","l","l","u","t","i","o","n"," ","l","i","m","i","t","s">>)]

Promise_Environment == Promise("p2", <<"P","r","o","t","e","c","t"," ","c","l","e","a","n"," ","a","i","r"," ","a","n","d"," ","w","a","t","e","r">>, <<"E","n","v","i","r","o","n","m","e","n","t">>)
Promise_Education == Promise("p3", <<"S","u","p","p","o","r","t"," ","t","e","a","c","h","e","r","s"," ","a","n","d"," ","s","t","u","d","e","n","t","s">>, <<"E","d","u","c","a","t","i","o","n">>)

PromiseLists ==
    { <<>>, <<Promise_Healthcare>>, <<Promise_Healthcare, Promise_Environment>>,
      <<Promise_Education, Promise_Healthcare>>,
      <<Promise_Healthcare, Promise_Education, Promise_Environment>>,
      <<Promise_Environment, Promise_Healthcare, Promise_Education>> }

\* two yearly records: votes for and against the Medicare bill, then for and against the
\* clean air bill
PromiseKeepingCalls ==
    { [fn |-> "analyze_promise_keeping", promises_data |-> [items |-> p],
       votes_data |-> << VotingRecord(Repeat(Vote(Bill_Medicare, V_yes), a)
                                      \o Repeat(Vote(Bill_Medicare, V_no), b)),
                         VotingRecord(Repeat(Vote(Bill_CleanAirAct, V_yes), c)
                                      \o Repeat(Vote(Bill_CleanAirAct, V_no), d)) >>] :
        p \in PromiseLists, a \in 0..MaxYes, b \in 0..MaxNo, c \in 0..1, d \in 0..MaxNo }

MaxFlags == 6

\* a red flag as far as the aggregator reads it
Flag(type, severity) == [type |-> type, severity |-> severity]

FlagMenu ==
    { Flag(t, s) : t \in { "low_transparency", "low_accessibility", "no_town_halls",
                           "broken_promise", "stock_conflict" },
                   s \in { "critical", "high", "medium", "low" } }

\* the red-flag reports: none, up to two flags of any kind, and many critical ones
RedFlagReports ==
    {None}
    \cup { [tag |-> "dict", flags |-> f] : f \in SeqsUpTo(FlagMenu, 2) }
    \cup { [tag |-> "dict", flags |-> Repeat(Flag("low_transparency", "critical"), n)
                                      \o Repeat(Flag("no_town_halls", "low"), m)] :
             n \in 0..MaxFlags, m \in 0..1 }

\* a profile as far as the engine reads it
Official(contact) == [personal |-> [contactInfo |-> contact], promises |-> [items |-> <<>>]]

ContactMenu ==
    { Absent, None, ContactInfo_Empty, ContactInfo_Full,
      ContactInfo(Str(<<"r","e","p","@","h","o","u","s","e",".","g","o","v">>), None, Str(S_Empty)),
      ContactInfo(None, Str(<<"2","0","2","-","5","5","5","-","0","1","0","0">>), Str(<<"h","t","t","p","s",":","/","/","r","e","p",".","h","o","u","s","e",".","g","o","v">>)) }

TransparencyCalls ==
    { [fn |-> "_calculate_transparency_score", official_data |-> Official(c), red_flags |-> r] :
        c \in ContactMenu, r \in RedFlagReports }

(***************************************************************************)
(* services/job_service.py, scrape_official                                *)
(***************************************************************************)
\* the yearly vote snapshot scrape_official stores (lines 113-116 and 166-173)
votes_snapshot(votes) ==
    LET total_votes == Len(votes)
        votes_cast == Len(SelectSeq(votes, LAMBDA v : v.vote \notin {V_not_voting}))
    IN  [votes |-> votes,
         participationRate |-> IF total_votes > 0 THEN Rat(100 * votes_cast, total_votes)
                               ELSE RInt(0)]

\* the profile and the vote snapshot scrape_official stores for a member
scrape_official(member_data, votes) ==
    [official_data |-> [personal |-> [contactInfo |-> member_data.contact],
                        promises |-> [items |-> <<>>]],
     votes_data |-> votes_snapshot(votes)]

MaxScraped == 2

\* what scrape_votes returns: the lower-cased ProPublica positions Yes, No, Not Voting
\* and Present
ScrapedVotes ==
    { Repeat(Vote(Bill_Medicare, V_yes), y) \o Repeat(Vote(Bill_Medicare, V_no), n)
      \o Repeat(Vote(Bill_Medicare, V_not_voting_spaced), s)
      \o Repeat(Vote(Bill_Medicare, V_present), p) :
        y \in 0..MaxScraped, n \in 0..1, s \in 0..MaxScraped, p \in 0..MaxScraped }

ScrapeCalls ==
    { [fn |-> "scrape_official", member_data |-> [contact |-> c], votes |-> v] :
        c \in {None, ContactInfo_Full}, v \in ScrapedVotes }

(***************************************************************************)
(* scrapers/base.py, BaseScraper._make_request                              *)
(***************************************************************************)
MaxResponses == 4

\* stop=stop_after_attempt(3) (base.py 30)
stop_after_attempt == 3

ScrapingError(message) == [tag |-> "Raised", exc |-> "ScrapingError", message |-> message]

RateLimitError == [tag |-> "Raised", exc |-> "RateLimitError", message |-> "Rate limit exceeded"]

\* what the remote end does on one GET: a response with a status and a body (body 0 is
\* a body that is not JSON), or no response at all
Response(status, body) == [kind |-> "response", status |-> status, body |-> body]

TransportError == [kind |-> "transport_error", status |-> 0, body |-> 0]

ResponseMenu == { Response(200, 1), Response(200, 2), Response(200, 0), Response(429, 0), Response(500, 0), TransportError }

\* the body of the try block (base.py 53-63): the JSON returned or the exception raised
make_request_try(r) ==
    IF r.kind = "transport_error" THEN [tag |-> "Raised", exc |-> "httpx.RequestError", message |-> ""]
    ELSE IF r.status = 429 THEN RateLimitError
    ELSE IF r.status >= 400 THEN [tag |-> "Raised", exc |-> "httpx.HTTPStatusError", message |-> ""]
    ELSE IF r.body = 0 THEN [tag |-> "Raised", exc |-> "JSONDecodeError", message |-> ""]
    ELSE [tag |-> "json", exc |-> "", message |-> "", body |-> r.body]

\* one attempt with its except clauses in their order (base.py 65-83): RateLimitError is
\* neither an HTTPStatusError nor a RequestError and falls to `except Exception`
make_request_once(r) ==
    Bind(make_request_try(r), LAMBDA x :
        IF ~IsRaised(x) THEN x
        ELSE IF x.exc = "httpx.HTTPStatusError" THEN ScrapingError("HTTP error")
        ELSE IF x.exc = "httpx.RequestError" THEN ScrapingError("Request failed")
        ELSE ScrapingError("Unexpected error"))

\* @retry(stop=stop_after_attempt(3), ..., reraise=True) (base.py 29-33): every exception
\* is retried, the last one is re-raised
RECURSIVE retry(_, _)
retry(responses, attempt) ==
    Bind(make_request_once(responses[attempt]), LAMBDA x :
        IF ~IsRaised(x) \/ attempt >= stop_after_attempt
        THEN [result |-> x, attempts |-> attempt]
        ELSE retry(responses, attempt + 1))

_make_request(responses) == retry(responses, 1)

MakeRequestCalls ==
    { [fn |-> "_make_request", responses |-> r] : r \in [1..MaxResponses -> ResponseMenu] }

Calls ==
    DonorIndependenceCalls \cup InfluenceCalls \cup BrokenPromiseCalls \cup StockConflictCalls
        \cup AttendanceCalls \cup DonorConcentrationCalls \cup FavorableCalls
        \cup CategorizeCalls \cup PromiseKeepingCalls \cup TransparencyCalls
        \cup ScrapeCalls \cup MakeRequestCalls

InitCalls ==
    /\ snapshot = None
    /\ run = 1
    /\ prev = None
    /\ pc = "call"
    /\ promise_analysis = None
    /\ influence_analysis = None
    /\ nested_influence = None
    /\ red_flags = None
    /\ component_scores = None
    /\ score = None
    /\ grade_arg = None
    /\ grade_ret = None
    /\ args \in Calls
    /\ ret = None
    /\ auth = None
    /\ job = None

CalculateDonorIndependenceScore ==
    /\ pc = "call"
    /\ args.fn = "_calculate_donor_independence_score"
    /\ ret' = _calculate_donor_independence_score(args.donations_data, args.influence_analysis)
    /\ pc' = "returned"
    /\ UNCHANGED <<auth, job, snapshot, run, promise_analysis, influence_analysis, nested_influence,
                   red_flags, component_scores, score, prev, grade_arg, grade_ret, args>>

CallCalculateInfluenceScore ==
    /\ pc = "call"
    /\ args.fn = "calculate_influence_score"
    /\ ret' = calculate_influence_score(args.donations_data, args.votes_data)
    /\ pc' = "returned"
    /\ UNCHANGED <<auth, job, snapshot, run, promise_analysis, influence_analysis, nested_influence,
                   red_flags, component_scores, score, prev, grade_arg, grade_ret, args>>

CallDetectBrokenPromiseFlags ==
    /\ pc = "call"
    /\ args.fn = "_detect_broken_promise_flags"
    /\ ret' = _detect_broken_promise_flags(args.promise_analysis)
    /\ pc' = "returned"
    /\ UNCHANGED <<auth, job, snapshot, run, promise_analysis, influence_analysis, nested_influence,
                   red_flags, component_scores, score, prev, grade_arg, grade_ret, args>>

CallDetectStockConflicts ==
    /\ pc = "call"
    /\ args.fn = "_detect_stock_conflicts"
    /\ ret' = _detect_stock_conflicts(args.stocks_data)
    /\ pc' = "returned"
    /\ UNCHANGED <<auth, job, snapshot, run, promise_analysis, influence_analysis, nested_influence,
                   red_flags, component_scores, score, prev, grade_arg, grade_ret, args>>

CallDetectAttendanceFlags ==
    /\ pc = "call"
    /\ args.fn = "_detect_attendance_flags"
    /\ ret' = _detect_attendance_flags(args.votes_data)
    /\ pc' = "returned"
    /\ UNCHANGED <<auth, job, snapshot, run, promise_analysis, influence_analysis, nested_influence,
                   red_flags, component_scores, score, prev, grade_arg, grade_ret, args>>

CallDetectDonorConcentrationFlags ==
    /\ pc = "call"
    /\ args.fn = "_detect_donor_concentration_flags"
    /\ ret' = _detect_donor_concentration_flags(args.donations_data)
    /\ pc' = "returned"
    /\ UNCHANGED <<auth, job, snapshot, run, promise_analysis, influence_analysis, nested_influence,
                   red_flags, component_scores, score, prev, grade_arg, grade_ret, args>>

CallIsVoteFavorableToIndustry ==
    /\ pc = "call"
    /\ args.fn = "is_vote_favorable_to_industry"
    /\ ret' = is_vote_favorable_to_industry(args.vote, args.bill_categories, args.industry)
    /\ pc' = "returned"
    /\ UNCHANGED <<auth, job, snapshot, run, promise_analysis, influence_analysis, nested_influence,
                   red_flags, component_scores, score, prev, grade_arg, grade_ret, args>>

CallCategorizeDonationIndustry ==
    /\ pc = "call"
    /\ args.fn = "categorize_donation_industry"
    /\ ret' = categorize_donation_industry(args.donor_name, args.current_industry)
    /\ pc' = "returned"
    /\ UNCHANGED <<auth, job, snapshot, run, promise_analysis, influence_analysis, nested_influence,
                   red_flags, component_scores, score, prev, grade_arg, grade_ret, args>>

CallAnalyzePromiseKeeping ==
    /\ pc = "call"
    /\ args.fn = "analyze_promise_keeping"
    /\ ret' = analyze_promise_keeping(args.promises_data, args.votes_data)
    /\ pc' = "returned"
    /\ UNCHANGED <<auth, job, snapshot, run, promise_analysis, influence_analysis, nested_influence,
                   red_flags, component_scores, score, prev, grade_arg, grade_ret, args>>

CallCalculateTransparencyScore ==
    /\ pc = "call"
    /\ args.fn = "_calculate_transparency_score"
    /\ ret' = _calculate_transparency_score(args.official_data, args.red_flags)
    /\ pc' = "returned"
    /\ UNCHANGED <<auth, job, snapshot, run, promise_analysis, influence_analysis, nested_influence,
                   red_flags, component_scores, score, prev, grade_arg, grade_ret, args>>

CallScrapeOfficial ==
    /\ pc = "call"
    /\ args.fn = "scrape_official"
    /\ ret' = scrape_official(args.member_data, args.votes)
    /\ pc' = "returned"
    /\ UNCHANGED <<auth, job, snapshot, run, promise_analysis, influence_analysis, nested_influence,
                   red_flags, component_scores, score, prev, grade_arg, grade_ret, args>>

CallMakeRequest ==
    /\ pc = "call"
    /\ args.fn = "_make_request"
    /\ ret' = _make_request(args.responses)
    /\ pc' = "returned"
    /\ UNCHANGED <<auth, job, snapshot, run, promise_analysis, influence_analysis, nested_influence,
                   red_flags, component_scores, score, prev, grade_arg, grade_ret, args>>

NextCalls ==
    \/ CalculateDonorIndependenceScore
    \/ CallCalculateInfluenceScore
    \/ CallDetectBrokenPromiseFlags
    \/ CallDetectStockConflicts
    \/ CallDetectAttendanceFlags
    \/ CallDetectDonorConcentrationFlags
    \/ CallIsVoteFavorableToIndustry
    \/ CallCategorizeDonationIndustry
    \/ CallAnalyzePromiseKeeping
    \/ CallCalculateTransparencyScore
    \/ CallScrapeOfficial
    \/ CallMakeRequest

SpecCalls == InitCalls /\ [][NextCalls]_vars


(***************************************************************************)
(* Admin login: services/auth_service.py, api/auth.py, core/dependencies.py *)
(***************************************************************************)
engineVars == <<snapshot, run, promise_analysis, influence_analysis, nested_influence, red_flags, component_scores, score, prev, grade_arg, grade_ret, args, ret>>

\* the score engine is not running while the login or the batch job is exercised
EngineIdle ==
    /\ snapshot = None
    /\ run = 1
    /\ prev = None
    /\ promise_analysis = None
    /\ influence_analysis = None
    /\ nested_influence = None
    /\ red_flags = None
    /\ component_scores = None
    /\ score = None
    /\ grade_arg = None
    /\ grade_ret = None
    /\ args = None
    /\ ret = None

MaxTokens == 2

MaxCallers == 2

\* settings.ADMIN_EMAIL (config.py 38)
ADMIN_EMAIL == <<"a","d","m","i","n","@","e","x","a","m","p","l","e",".","c","o","m">>

\* the addresses a magic link is requested for
Emails == << <<"a","d","m","i","n","@","e","x","a","m","p","l","e",".","c","o","m">>, <<"A","d","m","i","n","@","E","x","a","m","p","l","e",".","c","o","m">>, <<"m","a","l","l","o","r","y","@","e","x","a","m","p","l","e",".","c","o","m">> >>

\* auth_service.py 29-31
_is_admin_email(email) == Lower(email) = Lower(ADMIN_EMAIL)

\* the (success, message) pair request_magic_link returns; link is the token a dev
\* message carries (0: none), token_stored and email_sent what the call did
LinkResult(success, message, link, token_stored, email_sent) == [success |-> success, message |-> message, link |-> link, token_stored |-> token_stored, email_sent |-> email_sent]

\* auth_service.py 33-92: a is the login state, e the address, put_ok whether S3
\* accepted the token record, delivered whether SendGrid accepted the mail
request_magic_link(a, e, put_ok, delivered) ==
    IF ~_is_admin_email(Emails[e])
    THEN [a EXCEPT !.answers[e] = LinkResult(TRUE, "If this email is authorized, a login link has been sent.", 0, FALSE, FALSE)]
    ELSE IF ~put_ok
    THEN [a EXCEPT !.issued = a.issued + 1,
                   !.answers[e] = LinkResult(FALSE, "An error occurred. Please try again.", 0, FALSE, FALSE)]
    ELSE IF a.sendgrid /\ delivered
    THEN [a EXCEPT !.issued = a.issued + 1, !.tokens[a.issued + 1] = "unused", !.outbox = a.outbox + 1,
                   !.answers[e] = LinkResult(TRUE, "Check your email for a login link.", 0, TRUE, TRUE)]
    ELSE IF ~a.sendgrid
    THEN [a EXCEPT !.issued = a.issued + 1, !.tokens[a.issued + 1] = "unused",
                   !.answers[e] = LinkResult(TRUE, "Magic link (dev): ", a.issued + 1, TRUE, FALSE)]
    ELSE [a EXCEPT !.issued = a.issued + 1, !.tokens[a.issued + 1] = "unused",
                   !.answers[e] = LinkResult(FALSE, "Failed to send email. Please try again.", 0, TRUE, FALSE)]

\* the login state of a fresh deployment: no token or session stored, no call in flight
AuthFresh(sendgrid) ==
    [sendgrid |-> sendgrid,
     issued |-> 0,
     tokens |-> [t \in 1..MaxTokens |-> "absent"],
     outbox |-> 0,
     answers |-> [e \in 1..Len(Emails) |-> None],
     calls |-> [c \in 1..MaxCallers |-> [pc |-> "idle", token |-> 0, session |-> 0]],
     created |-> 0,
     sessions |-> [s \in 1..MaxCallers |-> "absent"],
     logged_out |-> {},
     last |-> None]

InitMagicLink ==
    /\ EngineIdle
    /\ pc = "link"
    /\ job = None
    /\ \E sendgrid \in BOOLEAN : auth = AuthFresh(sendgrid)

\* POST /auth/request (api/auth.py 22-31)
RequestMagicLink ==
    /\ pc = "link"
    /\ \E e \in 1..Len(Emails), put_ok \in BOOLEAN, delivered \in BOOLEAN :
        /\ _is_admin_email(Emails[e]) => auth.issued < MaxTokens
        /\ auth' = request_magic_link(auth, e, put_ok, delivered)
    /\ UNCHANGED <<engineVars, pc, job>>

NextMagicLink == RequestMagicLink

SpecMagicLink == InitMagicLink /\ [][NextMagicLink]_vars

\* the token records request_magic_link can have left in auth/tokens: every token it
\* issued is stored unused, or not stored when S3 refused the record
IssuedTokens == [1..MaxTokens -> {"absent", "unused"}]

InitLogin ==
    /\ EngineIdle
    /\ pc = "login"
    /\ job = None
    /\ \E sendgrid \in BOOLEAN, tokens \in IssuedTokens :
          auth = [AuthFresh(sendgrid) EXCEPT !.issued = MaxTokens, !.tokens = tokens]

\* the call c of verify_token ends with AuthenticationError (auth_service.py 155-161)
Raise(a, c) == [a EXCEPT !.calls[c].pc = "raised"]

\* verify_token up to its first await and the checks on what it read (auth_service.py
\* 109-126): decoded is whether jwt.decode accepted the token, get_ok whether S3 answered
verify_token_read(a, c, t, decoded, get_ok) ==
    IF ~decoded \/ ~get_ok THEN Raise([a EXCEPT !.calls[c].token = t], c)
    ELSE IF a.tokens[t] = "absent" THEN Raise([a EXCEPT !.calls[c].token = t], c)
    ELSE IF a.tokens[t] = "used" THEN Raise([a EXCEPT !.calls[c].token = t], c)
    ELSE [a EXCEPT !.calls[c].token = t, !.calls[c].pc = "checked"]

\* token_data["used"] = True; put_json (auth_service.py 128-131)
verify_token_mark(a, c, put_ok) ==
    IF ~put_ok THEN Raise(a, c)
    ELSE [a EXCEPT !.tokens[a.calls[c].token] = "used", !.calls[c].pc = "marked"]

\* the session is created, stored and returned (auth_service.py 133-153)
verify_token_session(a, c, put_ok) ==
    IF ~put_ok THEN Raise(a, c)
    ELSE [a EXCEPT !.created = a.created + 1, !.sessions[a.created + 1] = "stored",
                   !.calls[c].session = a.created + 1, !.calls[c].pc = "returned"]

\* POST /auth/verify arrives and runs to the await of get_json
VerifyTokenRead ==
    /\ pc = "login"
    /\ \E c \in 1..MaxCallers, t \in 1..MaxTokens, decoded \in BOOLEAN, get_ok \in BOOLEAN :
        /\ auth.calls[c].pc = "idle"
        /\ auth' = verify_token_read(auth, c, t, decoded, get_ok)
    /\ UNCHANGED <<engineVars, pc, job>>

VerifyTokenMark ==
    /\ pc = "login"
    /\ \E c \in 1..MaxCallers, put_ok \in BOOLEAN :
        /\ auth.calls[c].pc = "checked"
        /\ auth' = verify_token_mark(auth, c, put_ok)
    /\ UNCHANGED <<engineVars, pc, job>>

VerifyTokenSession ==
    /\ pc = "login"
    /\ \E c \in 1..MaxCallers, put_ok \in BOOLEAN :
        /\ auth.calls[c].pc = "marked"
        /\ auth' = verify_token_session(auth, c, put_ok)
    /\ UNCHANGED <<engineVars, pc, job>>

\* datetime.utcnow() passes the session's expiresAt (auth_service.py 135, 185)
SessionExpires ==
    /\ pc = "login"
    /\ \E s \in 1..MaxCallers :
        /\ auth.sessions[s] = "stored"
        /\ auth' = [auth EXCEPT !.sessions[s] = "expired"]
    /\ UNCHANGED <<engineVars, pc, job>>

\* auth_service.py 163-196: what verify_session answers and what it leaves stored
verify_session(a, s, get_ok, delete_ok) ==
    IF ~get_ok THEN [accepted |-> FALSE, sessions |-> a.sessions]
    ELSE IF a.sessions[s] = "absent" THEN [accepted |-> FALSE, sessions |-> a.sessions]
    ELSE IF a.sessions[s] = "expired"
    THEN [accepted |-> FALSE, sessions |-> IF delete_ok THEN [a.sessions EXCEPT ![s] = "absent"] ELSE a.sessions]
    ELSE [accepted |-> TRUE, sessions |-> a.sessions]

\* dependencies.py 15-51: 401 unless verify_session returns the session
get_current_admin(a, s, get_ok, delete_ok) == verify_session(a, s, get_ok, delete_ok)

\* any endpoint of the admin API that depends on get_current_admin, called with Bearer s
AdminRequest ==
    /\ pc = "login"
    /\ \E s \in 1..MaxCallers, get_ok \in BOOLEAN, delete_ok \in BOOLEAN :
        /\ auth' = Bind(get_current_admin(auth, s, get_ok, delete_ok), LAMBDA r :
                      [auth EXCEPT !.sessions = r.sessions,
                                   !.last = [session |-> s, endpoint |-> "admin", accepted |-> r.accepted]])
    /\ UNCHANGED <<engineVars, pc, job>>

\* POST /auth/logout (api/auth.py 57-66): the dependency runs, then success is returned
LogoutRequest ==
    /\ pc = "login"
    /\ \E s \in 1..MaxCallers, get_ok \in BOOLEAN, delete_ok \in BOOLEAN :
        /\ auth' = Bind(get_current_admin(auth, s, get_ok, delete_ok), LAMBDA r :
                      [auth EXCEPT !.sessions = r.sessions,
                                   !.logged_out = IF r.accepted THEN auth.logged_out \cup {s} ELSE auth.logged_out,
                                   !.last = [session |-> s, endpoint |-> "logout", accepted |-> r.accepted]])
    /\ UNCHANGED <<engineVars, pc, job>>

NextLogin ==
    \/ VerifyTokenRead
    \/ VerifyTokenMark
    \/ VerifyTokenSession
    \/ SessionExpires
    \/ AdminRequest
    \/ LogoutRequest

SpecLogin == InitLogin /\ [][NextLogin]_vars

(***************************************************************************)
(* services/job_service.py, update_all_officials                            *)
(***************************************************************************)
MaxMembers == 11

\* settings.MAX_CONCURRENT_SCRAPES (config.py 58)
MAX_CONCURRENT_SCRAPES == 10

\* `if job.progress.completed % 10 == 0` (job_service.py 234)
SaveEvery == 10

\* models/jobs.py 10-14
JobProgress(total, completed, failed) == [total |-> total, completed |-> completed, failed |-> failed]

\* the job after create_job and start_background_job (api/admin.py 59-65): phase is the
\* position of update_all_officials, stored the status in jobs/{id}.json, status the
\* status of the job object; the member tasks are counted by where they stand:
\* waiting for the semaphore, in scrape_official, in revalidate_official, in the
\* periodic update_job (by the status the record they are writing carries)
JobCreated(stored) ==
    [phase |-> "called", stored |-> stored, status |-> "pending", progress |-> None,
     errors |-> 0, officialsUpdated |-> 0, isrTriggered |-> FALSE,
     waiting |-> 0, scraping |-> 0, revalidating |-> 0, saving_running |-> 0, saving_failed |-> 0,
     escaped |-> FALSE]

InitJob ==
    /\ EngineIdle
    /\ pc = "job"
    /\ auth = None
    /\ \E stored \in {"pending", "missing"} : job = JobCreated(stored)

\* the members holding the semaphore
InFlight(j) == j.scraping + j.revalidating + j.saving_running + j.saving_failed

\* job = await self.get_job(job_id) ... job.status = "running" (job_service.py 191-197)
GetJob ==
    /\ pc = "job"
    /\ job.phase = "called"
    /\ \E get_ok \in BOOLEAN :
          job' = IF ~get_ok THEN [job EXCEPT !.phase = "raised"]
                 ELSE IF job.stored = "missing" THEN [job EXCEPT !.phase = "returned"]
                 ELSE [job EXCEPT !.status = "running", !.phase = "save_running"]
    /\ UNCHANGED <<engineVars, pc, auth>>

\* await self.update_job(job) (job_service.py 198), outside the try statement
SaveRunning ==
    /\ pc = "job"
    /\ job.phase = "save_running"
    /\ \E put_ok \in BOOLEAN :
          job' = IF put_ok THEN [job EXCEPT !.stored = job.status, !.phase = "fetch"]
                 ELSE [job EXCEPT !.phase = "raised"]
    /\ UNCHANGED <<engineVars, pc, auth>>

\* the two get_members_list calls, then progress, result, the semaphore and the tasks
\* handed to gather (job_service.py 202-218, 248); if a list cannot be fetched the
\* handler at 260-263 runs
GetMembersList ==
    /\ pc = "job"
    /\ job.phase = "fetch"
    /\ \/ \E n \in 0..MaxMembers :
             job' = [job EXCEPT !.progress = JobProgress(n, 0, 0), !.waiting = n, !.phase = "gather"]
       \/ job' = [job EXCEPT !.status = "failed", !.errors = job.errors + 1, !.phase = "save_final"]
    /\ UNCHANGED <<engineVars, pc, auth>>

\* a task that enters without looking at the semaphore
AcquireUnbounded ==
    /\ pc = "job"
    /\ job.waiting > 0
    /\ job' = [job EXCEPT !.waiting = job.waiting - 1, !.scraping = job.scraping + 1]
    /\ UNCHANGED <<engineVars, pc, auth>>

\* async with semaphore: a task enters when fewer than MAX_CONCURRENT_SCRAPES hold it,
\* builds official_id and awaits scrape_official (job_service.py 219-222)
Acquire ==
    /\ pc = "job"
    /\ job.waiting > 0
    /\ InFlight(job) < MAX_CONCURRENT_SCRAPES
    /\ job' = [job EXCEPT !.waiting = job.waiting - 1, !.scraping = job.scraping + 1]
    /\ UNCHANGED <<engineVars, pc, auth>>

\* a member whose state is null: line 221 raises before official_id is bound, the handler
\* counts the failure (238) and raises UnboundLocalError at 241, which leaves the task
\* (and releases the semaphore)
AcquireMalformed ==
    /\ pc = "job"
    /\ job.waiting > 0
    /\ InFlight(job) < MAX_CONCURRENT_SCRAPES
    /\ job' = [job EXCEPT !.waiting = job.waiting - 1, !.progress.failed = job.progress.failed + 1,
                          !.escaped = TRUE]
    /\ UNCHANGED <<engineVars, pc, auth>>

\* scrape_official returns or raises (job_service.py 222-225, 237-245)
ScrapeReturns ==
    /\ pc = "job"
    /\ job.scraping > 0
    /\ \/ job' = [job EXCEPT !.scraping = job.scraping - 1, !.revalidating = job.revalidating + 1,
                             !.progress.completed = job.progress.completed + 1,
                             !.officialsUpdated = job.officialsUpdated + 1]
       \/ job' = [job EXCEPT !.scraping = job.scraping - 1,
                             !.progress.failed = job.progress.failed + 1, !.errors = job.errors + 1]
    /\ UNCHANGED <<engineVars, pc, auth>>

\* revalidate_official returns (it reports failures in its result and does not raise,
\* isr_service.py 32-56); then the periodic save is started, with the job as it is now,
\* or the task ends (job_service.py 228-235)
RevalidateReturns ==
    /\ pc = "job"
    /\ job.revalidating > 0
    /\ job' = IF job.progress.completed % SaveEvery # 0
              THEN [job EXCEPT !.revalidating = job.revalidating - 1, !.isrTriggered = TRUE]
              ELSE IF job.status = "running"
              THEN [job EXCEPT !.revalidating = job.revalidating - 1, !.isrTriggered = TRUE,
                               !.saving_running = job.saving_running + 1]
              ELSE [job EXCEPT !.revalidating = job.revalidating - 1, !.isrTriggered = TRUE,
                               !.saving_failed = job.saving_failed + 1]
    /\ UNCHANGED <<engineVars, pc, auth>>

\* the periodic update_job of a task ends: S3 took the record it was given, or it raised
\* and the handler at 237-245 runs (job_service.py 235)
PeriodicSave ==
    /\ pc = "job"
    /\ \/ /\ job.saving_running > 0
          /\ \/ job' = [job EXCEPT !.saving_running = job.saving_running - 1, !.stored = "running"]
             \/ job' = [job EXCEPT !.saving_running = job.saving_running - 1,
                                   !.progress.failed = job.progress.failed + 1, !.errors = job.errors + 1]
       \/ /\ job.saving_failed > 0
          /\ \/ job' = [job EXCEPT !.saving_failed = job.saving_failed - 1, !.stored = "failed"]
             \/ job' = [job EXCEPT !.saving_failed = job.saving_failed - 1,
                                   !.progress.failed = job.progress.failed + 1, !.errors = job.errors + 1]
    /\ UNCHANGED <<engineVars, pc, auth>>

\* asyncio.gather returns once every task has ended (job_service.py 248-251)
GatherReturns ==
    /\ pc = "job"
    /\ job.phase = "gather"
    /\ ~job.escaped
    /\ job.waiting = 0
    /\ InFlight(job) = 0
    /\ job' = [job EXCEPT !.status = "completed", !.phase = "save_final"]
    /\ UNCHANGED <<engineVars, pc, auth>>

\* asyncio.gather raises the exception of a task, the other tasks run on
\* (job_service.py 248, 260-263)
GatherRaises ==
    /\ pc = "job"
    /\ job.phase = "gather"
    /\ job.escaped
    /\ job' = [job EXCEPT !.status = "failed", !.errors = job.errors + 1, !.phase = "save_final"]
    /\ UNCHANGED <<engineVars, pc, auth>>

\* finally: await self.update_job(job) (job_service.py 265-266)
SaveFinal ==
    /\ pc = "job"
    /\ job.phase = "save_final"
    /\ \E put_ok \in BOOLEAN :
          job' = IF put_ok THEN [job EXCEPT !.stored = job.status, !.phase = "returned"]
                 ELSE [job EXCEPT !.phase = "raised"]
    /\ UNCHANGED <<engineVars, pc, auth>>

NextJob ==
    \/ GetJob
    \/ SaveRunning
    \/ GetMembersList
    \/ Acquire
    \/ AcquireMalformed
    \/ ScrapeReturns
    \/ RevalidateReturns
    \/ PeriodicSave
    \/ GatherReturns
    \/ GatherRaises
    \/ SaveFinal

SpecJob == InitJob /\ [][NextJob]_vars

\* the event loop runs every task that can run, and every request made by a task ends,
\* with an answer or by its timeout (REQUEST_TIMEOUT, config.py 59; isr_service.py 32)
JobFairness ==
    /\ WF_vars(GetJob \/ SaveRunning \/ GetMembersList \/ GatherReturns \/ GatherRaises \/ SaveFinal)
    /\ WF_vars(Acquire \/ AcquireMalformed)
    /\ WF_vars(ScrapeReturns)
    /\ WF_vars(RevalidateReturns)
    /\ WF_vars(PeriodicSave)

SpecJobFair == InitJob /\ [][NextJob]_vars /\ JobFairness
\* a direct call of fn has returned
Returned(fn) == pc = "returned" /\ args.fn = fn

\* C11: _calculate_donor_independence_score returns 50 when there is no donation data or
\* totalRaised is 0; otherwise, with individualPct = 100 * individualContributions /
\* totalRaised, it returns 0.5 * individualPct + 0.5 * (100 - influenceScore) when an
\* influence analysis is given and individualPct when none is; 700,000 of 1,000,000 with
\* influenceScore 40 gives 65.
C11_DonorIndependence ==
    Returned("_calculate_donor_independence_score")
    => LET d == args.donations_data
           a == args.influence_analysis
           individualPct == Rat(100 * d.summary.individualContributions, d.summary.totalRaised)
       IN  /\ ret = IF d = None THEN RInt(50)
                    ELSE IF d.summary.totalRaised = 0 THEN RInt(50)
                    ELSE IF a # None
                    THEN RAdd(RMul(Rat(1, 2), individualPct),
                              RMul(Rat(1, 2), RSub(RInt(100), a.influence_score)))
                    ELSE individualPct
           /\ (d = Donations_Test /\ a = InfluenceWith(RInt(40))) => ret = RInt(65)

\* the call of the test has returned 65: 700,000 of 1,000,000 and influenceScore 40
C11_Example ==
    /\ Returned("_calculate_donor_independence_score")
    /\ args.donations_data = Donations_Test
    /\ args.influence_analysis = InfluenceWith(RInt(40))
    /\ ret = RInt(65)


\* the donation totals of the industries reported in top_industries
TopIndustriesTotal(r) == SumSeq([i \in 1..Len(r.top_industries) |-> r.top_industries[i].total_donations])

\* C12: the donation_concentration calculate_influence_score reports is 100 * (the sum of
\* the donation totals of the industries reported in top_industries) / totalRaised, to one
\* decimal, and 0 when totalRaised is 0; four industries totalling 200,000 of 250,000
\* raised give 80.0.
C12_DonationConcentration ==
    Returned("calculate_influence_score")
    => LET total == args.donations_data.summary.totalRaised
       IN  /\ total = 0 => ret.analysis.donation_concentration = RInt(0)
           /\ total # 0 => NearestTenth(ret.analysis.donation_concentration,
                                        Rat(100 * TopIndustriesTotal(ret), total))
           /\ args.donations_data = Donations_FourIndustries
                  => ret.analysis.donation_concentration = RInt(80)

\* an unclassified contributor's 5,000 of 20,000 raised is reported as a concentration of
\* 25.0 although top_industries is empty
C12_Unclassified ==
    /\ Returned("calculate_influence_score")
    /\ args.donations_data = Donations_Unclassified
    /\ ret.top_industries = <<>>
    /\ ret.analysis.donation_concentration = RInt(25)

\* the numbers n[1], n[2], ... from the largest down
Descending(n) == SortedBy(n, [i \in 1..Len(n) |-> -n[i]])

\* the flags are those of the (at most five) candidates voted against most often, one
\* each, high from ten votes against on and medium below
FlagsForWorst(flags, candidates) ==
    LET counts == Descending([i \in 1..Len(candidates) |-> candidates[i].times_voted_against])
    IN  /\ Descending([i \in 1..Len(flags) |-> flags[i].evidence_count]) = Take(counts, 5)
        /\ \A i \in 1..Len(flags) :
              /\ flags[i].type = "broken_promise"
              /\ flags[i].severity = IF flags[i].evidence_count >= 10 THEN "high" ELSE "medium"

\* broken/total of the analysis' summary is at least 0.5
MostlyBroken(a) ==
    a.summary.total_promises # 0 /\ 2 * a.summary.broken >= a.summary.total_promises

\* C13: _detect_broken_promise_flags emits no flag when total = 0 or broken/total < 0.5;
\* when broken/total >= 0.5 it emits one flag for each promise with times_voted_against
\* >= 5, limited to the 5 promises with the highest times_voted_against, each high if its
\* times_voted_against >= 10 and medium otherwise (the statement as claimed).
C13_EveryPromiseVotedAgainst ==
    Returned("_detect_broken_promise_flags")
    => LET a == args.promise_analysis
       IN  IF MostlyBroken(a)
           THEN FlagsForWorst(ret, SelectSeq(a.promises, LAMBDA p : p.times_voted_against >= 5))
           ELSE ret = <<>>

\* C13: as amended, the flags are for the promises whose status is broken and whose
\* times_voted_against >= 5 only.
C13_BrokenPromisesVotedAgainst ==
    Returned("_detect_broken_promise_flags")
    => LET a == args.promise_analysis
       IN  IF MostlyBroken(a)
           THEN FlagsForWorst(ret, SelectSeq(a.promises,
                                             LAMBDA p : /\ p.status = "broken"
                                                        /\ p.times_voted_against >= 5))
           ELSE ret = <<>>

\* five flags were emitted for six broken promises, while a promise in progress that was
\* voted against five times got none
C13_FiveOfSix ==
    /\ Returned("_detect_broken_promise_flags")
    /\ MostlyBroken(args.promise_analysis)
    /\ \E i \in 1..Len(args.promise_analysis.promises) :
          /\ args.promise_analysis.promises[i].status = "in_progress"
          /\ args.promise_analysis.promises[i].times_voted_against = 5
    /\ CountStatus(args.promise_analysis.promises, "broken") = 6
    /\ Len(ret) = 5
    /\ ret[1].severity = "high"
    /\ ret[5].severity = "medium"

\* the flags of one type among flags
OfType(flags, type) == SelectSeq(flags, LAMBDA f : f.type = type)

\* every flag is a stock_conflict flag of severity high or an excessive_trading flag of
\* severity medium, and there is one excessive_trading flag iff there are more than 50 trades
StockFlagsWellFormed(flags, trades) ==
    /\ \A i \in 1..Len(flags) :
          \/ flags[i].type = "stock_conflict" /\ flags[i].severity = "high"
          \/ flags[i].type = "excessive_trading" /\ flags[i].severity = "medium"
    /\ Len(OfType(flags, "excessive_trading")) = IF trades > 50 THEN 1 ELSE 0

\* C14: _detect_stock_conflicts produces exactly one stock_conflict flag of severity high
\* for every conflict alert supplied, so as many flags as alerts, and one more flag,
\* excessive_trading of severity medium, iff there are more than 50 trades (the statement
\* as claimed).
C14_OneFlagPerAlert ==
    Returned("_detect_stock_conflicts")
    => /\ StockFlagsWellFormed(ret, args.stocks_data.trades)
       /\ Len(OfType(ret, "stock_conflict")) = Len(args.stocks_data.conflictAlerts)

\* C14: as amended, only the first ten alerts supplied produce a flag.
C14_OneFlagPerAlertUpToTen ==
    Returned("_detect_stock_conflicts")
    => /\ StockFlagsWellFormed(ret, args.stocks_data.trades)
       /\ Len(OfType(ret, "stock_conflict"))
              = IF Len(args.stocks_data.conflictAlerts) < 10
                THEN Len(args.stocks_data.conflictAlerts) ELSE 10

\* eleven alerts and 51 trades gave ten stock_conflict flags and the excessive_trading flag
C14_ElevenAlerts ==
    /\ Returned("_detect_stock_conflicts")
    /\ Len(args.stocks_data.conflictAlerts) = 11
    /\ args.stocks_data.trades = 51
    /\ Len(OfType(ret, "stock_conflict")) = 10
    /\ Len(ret) = 11

\* the votes of all snapshots that were not cast: not-voting (in either spelling) or present
MissedOf(votes_data) ==
    SelectSeq(AllVotes(votes_data),
              LAMBDA v : v.vote \in { <<"n","o","t","-","v","o","t","i","n","g">>, <<"n","o","t"," ","v","o","t","i","n","g">>, <<"p","r","e","s","e","n","t">> })

\* C15: with missedRate = (votes that are not-voting or present) / (total votes over all
\* snapshots), _detect_attendance_flags emits exactly one excessive_missed_votes flag iff
\* total > 0 and missedRate >= 0.20, and none otherwise; the severity is critical if
\* missedRate / 0.08 >= 3, high if it is >= 2, else medium, and missed_rate_pct is
\* 100 * missedRate to one decimal; 3 missed of 6 give 50.0.
C15_AttendanceFlag ==
    Returned("_detect_attendance_flags")
    => LET total == Len(AllVotes(args.votes_data))
           missed == Len(MissedOf(args.votes_data))
           missedRate == Rat(missed, total)
           multiplier == RDiv(missedRate, Rat(8, 100))
       IN  /\ Len(ret) = IF total > 0 /\ 5 * missed >= total THEN 1 ELSE 0
           /\ ret # <<>> =>
                 /\ ret[1].type = "excessive_missed_votes"
                 /\ ret[1].severity = IF RGe(multiplier, RInt(3)) THEN "critical"
                                      ELSE IF RGe(multiplier, RInt(2)) THEN "high"
                                      ELSE "medium"
                 /\ NearestTenth(ret[1].missed_rate_pct, Rat(100 * missed, total))
           /\ args.votes_data = <<VotingRecord(Votes_AttendanceTest)>>
                  => ret # <<>> /\ ret[1].missed_rate_pct = RInt(50)

\* exactly one vote in five was missed, over two snapshots, and the flag is high
C15_OneInFive ==
    /\ Returned("_detect_attendance_flags")
    /\ Len(AllVotes(args.votes_data)) = 5 * Len(MissedOf(args.votes_data))
    /\ Len(args.votes_data) = 2
    /\ args.votes_data[2].votes # <<>>
    /\ Len(ret) = 1
    /\ ret[1].severity = "high"
    /\ ret[1].missed_rate_pct = RInt(20)

\* what the ten largest donors gave
TenLargest(donors) == SumSeq(Take(Descending([i \in 1..Len(donors) |-> donors[i].amount]), 10))

ContributingDonations(donations_data, industry) ==
    SelectSeq(donations_data.topDonors,
              LAMBDA d : categorize_donation_industry(d.name, Get(d.industry, None)) = industry)

\* the votes, of all yearly records, that are related to an industry and favorable to it
FavorableVotes(votes_data, industry) ==
    SelectSeq(AllVotes(votes_data),
              LAMBDA v : LET cats == categorize_bill(v.title, Get(v.billSummary, Str(S_Empty)))
                         IN  /\ _is_industry_related(industry, cats)
                             /\ is_vote_favorable_to_industry(v.vote, cats, industry))

\* the number of suspicious_timing records an industry is to yield
ExpectedRecords(call, industry) ==
    IF \E i \in 1..Len(ContributingDonations(call.donations_data, industry)) :
          ContributingDonations(call.donations_data, industry)[i].amount > 10000
    THEN Len(FavorableVotes(call.votes_data, industry))
    ELSE 0

IndustryKeys == { industries[i].key : i \in 1..Len(industries) }

RECURSIVE SumOver(_, _)
\* the sum of f over the set S
SumOver(f, S) == IF S = {} THEN 0 ELSE LET x == CHOOSE x \in S : TRUE IN f[x] + SumOver(f, S \ {x})

\* C17: in calculate_influence_score, for every industry other than "other" that has at
\* least one contributing donation whose amount exceeds 10,000, every related vote that
\* is favorable to that industry yields exactly one suspicious_timing record with
\* days_between = 7; an industry with no donation above 10,000 yields no record, and no
\* record is produced for a vote that is not favorable.  The records are counted in the
\* industry's suspicious_votes, and the first 20 of them are returned in red_flags.
C17_SuspiciousTiming ==
    Returned("calculate_influence_score")
    => LET expected == [k \in IndustryKeys |-> ExpectedRecords(args, k)]
           all == SumOver(expected, IndustryKeys)
       IN  /\ \A i \in 1..Len(ret.top_industries) :
                 ret.top_industries[i].suspicious_votes
                     = expected[ret.top_industries[i].industry_key]
           /\ Len(ret.red_flags) = IF all < 20 THEN all ELSE 20
           /\ \A i \in 1..Len(ret.red_flags) :
                 /\ ret.red_flags[i].type = "suspicious_timing"
                 /\ ret.red_flags[i].days_between = 7
           /\ all <= 20 =>
                 \A k \in IndustryKeys :
                     LET given == ContributingDonations(args.donations_data, k)
                         favorable == FavorableVotes(args.votes_data, k)
                         records == SelectSeq(ret.red_flags,
                                              LAMBDA r : given # <<>> /\ r.donor = Str(given[1].name))
                     IN  /\ Len(records) = expected[k]
                         /\ expected[k] > 0 =>
                               \A j \in 1..Len(records) :
                                   /\ records[j].vote_date = favorable[j].date
                                   /\ records[j].vote_description = favorable[j].title

\* a large oil and gas donation and a small pharmaceutical one: the vote for the energy
\* bill yields the one record, the vote against the Medicare bill none
C17_OnlyLargeDonation ==
    /\ Returned("calculate_influence_score")
    /\ args.donations_data = Donations_Mixed
    /\ args.votes_data[1].votes = <<Vote(Bill_Medicare, V_no), Vote(Bill_Energy, V_yes)>>
    /\ args.votes_data[2].votes = <<>>
    /\ Len(ret.red_flags) = 1
    /\ ret.red_flags[1].vote_description = Bill_Energy.title
    /\ ret.red_flags[1].days_between = 7

\* the six cases in which a vote is favorable
FavorableCase(industry, category, vote) ==
    \/ industry = "pharmaceuticals" /\ category = "healthcare" /\ vote = <<"n","o">>
    \/ industry = "oil_gas" /\ category = "environment" /\ vote = <<"n","o">>
    \/ industry = "oil_gas" /\ category = "energy" /\ vote = <<"y","e","s">>
    \/ industry = "tech" /\ category = "technology" /\ vote = <<"n","o">>
    \/ industry = "finance" /\ category = "economy" /\ vote = <<"n","o">>
    \/ industry = "defense" /\ category = "defense" /\ vote = <<"y","e","s">>

\* the industry has a rule for the category
HasRule(industry, category) ==
    \E vote \in { <<"y","e","s">>, <<"n","o">> } : FavorableCase(industry, category, vote)

\* C18: for a bill whose categories contain exactly one category for which the industry
\* has a rule, is_vote_favorable_to_industry is true exactly for pharmaceuticals+healthcare
\* with vote no, oil_gas+environment with no, oil_gas+energy with yes, tech+technology
\* with no, finance+economy with no and defense+defense with yes; for every other
\* industry, category or vote value it is false.
C18_Favorable ==
    Returned("is_vote_favorable_to_industry")
    => LET cats == args.bill_categories
           ruled == {i \in 1..Len(cats) : HasRule(args.industry, cats[i])}
       IN  /\ Cardinality(ruled) = 1
                 => ret = \E i \in ruled : FavorableCase(args.industry, cats[i], args.vote)
           /\ ruled = {} => ret = FALSE

\* a vote for a bill on labor and energy is favorable to oil and gas
C18_OilGasEnergy ==
    /\ Returned("is_vote_favorable_to_industry")
    /\ args.industry = "oil_gas"
    /\ args.bill_categories = <<"labor", "energy">>
    /\ args.vote = <<"y","e","s">>
    /\ ret = TRUE

\* the places, in the priority order, of the industries one of whose keywords is a
\* substring of the lower-cased text
MatchingIndustries(text) ==
    { i \in 1..Len(industries) :
        \E k \in 1..Len(industries[i].keywords) : Contains(Lower(text), industries[i].keywords[k]) }

\* the key of the first industry of a non-empty set of places
FirstKey(places) == industries[CHOOSE i \in places : \A j \in places : i <= j].key

\* C19: categorize_donation_industry tests the industries in a fixed priority order, first
\* against the lower-cased existing label (when one is given) and only then against the
\* lower-cased donor name, and returns the first industry key one of whose keywords is a
\* substring; it returns "other" iff no keyword of any industry is a substring of the
\* label or of the name; a match on the label always wins over a match on the name.
C19_LabelThenName ==
    Returned("categorize_donation_industry")
    => LET byLabel == IF args.current_industry = None THEN {}
                      ELSE MatchingIndustries(args.current_industry.s)
           byName == MatchingIndustries(args.donor_name)
       IN  /\ byLabel # {} => ret = FirstKey(byLabel)
           /\ byLabel = {} /\ byName # {} => ret = FirstKey(byName)
           /\ ret = "other" <=> byLabel = {} /\ byName = {}

\* the label's second-ranked industry wins over the name's first-ranked one
C19_LabelWins ==
    /\ Returned("categorize_donation_industry")
    /\ args.donor_name = <<"P","f","i","z","e","r"," ","P","A","C">>
    /\ args.current_industry = Str(<<"O","i","l"," ","&"," ","G","a","s">>)
    /\ ret = "oil_gas"

\* C20: analyze_promise_keeping reports kept + broken + in_progress + not_addressed =
\* total_promises and promise_keeping_score = 100 * kept / total_promises rounded to one
\* decimal, only kept promises counting; for an empty promise list it returns the all-zero
\* summary with score 0; the returned promises are ordered by times_voted_against,
\* highest first.
C20_PromiseSummary ==
    Returned("analyze_promise_keeping")
    => LET s == ret.summary
           n == Len(args.promises_data.items)
       IN  /\ s.total_promises = n
           /\ Len(ret.promises) = n
           /\ s.kept + s.broken + s.in_progress + s.not_addressed = s.total_promises
           /\ s.kept = CountStatus(ret.promises, "kept")
           /\ n > 0 => NearestTenth(s.promise_keeping_score, Rat(100 * s.kept, n))
           /\ n = 0 => /\ s.kept = 0 /\ s.broken = 0 /\ s.in_progress = 0 /\ s.not_addressed = 0
                       /\ s.promise_keeping_score = RInt(0)
                       /\ ret.promises = <<>>
           /\ \A i, j \in 1..Len(ret.promises) :
                 i < j => ret.promises[i].times_voted_against
                              >= ret.promises[j].times_voted_against

\* of three promises one is kept, one in progress and one not addressed: the score is
\* 33.3, and the promise voted against, given last, is returned first
C20_OneOfThree ==
    /\ Returned("analyze_promise_keeping")
    /\ args.promises_data.items = <<Promise_Healthcare, Promise_Education, Promise_Environment>>
    /\ ret.summary.kept = 1
    /\ ret.summary.in_progress = 1
    /\ ret.summary.not_addressed = 1
    /\ ret.summary.promise_keeping_score = Rat(333, 10)
    /\ ret.promises[1].promise_id = "p2"
    /\ ret.promises[1].times_voted_against > 0

\* the profile has the contact, a non-empty text
HasContact(official_data, field) ==
    LET c == official_data.personal.contactInfo
    IN  /\ c \notin {Absent, None}
        /\ c[field] \notin {Absent, None, Str(<<>>)}

\* the sum D of the deductions
Deductions(official_data, report) ==
    LET flags == IF report = None THEN <<>> ELSE report.flags
    IN  SumSeq([i \in 1..Len(flags) |->
                   IF flags[i].type \in {"low_transparency", "low_accessibility", "no_town_halls"}
                   THEN CASE flags[i].severity = "critical" -> 20
                          [] flags[i].severity = "high" -> 15
                          [] flags[i].severity = "medium" -> 10
                          [] OTHER -> 5
                   ELSE 0])
        + (IF HasContact(official_data, "email") THEN 0 ELSE 15)
        + (IF HasContact(official_data, "phone") THEN 0 ELSE 10)
        + (IF HasContact(official_data, "website") THEN 0 ELSE 10)

\* C21: _calculate_transparency_score returns max(0, 100 - D), D being the sum of 20, 15,
\* 10 or 5 (critical, high, medium, otherwise) for each red flag of type low_transparency,
\* low_accessibility or no_town_halls, plus 15 if the profile has no email, 10 if it has
\* no phone and 10 if it has no website; flags of any other type do not change the score.
C21_Transparency ==
    Returned("_calculate_transparency_score")
    => LET D == Deductions(args.official_data, args.red_flags)
       IN  ret = [tag |-> "float", v |-> RInt(IF D > 100 THEN 0 ELSE 100 - D)]

\* the call for a profile whose contactInfo is null has raised AttributeError
C21_NullContact ==
    /\ Returned("_calculate_transparency_score")
    /\ args.official_data.personal.contactInfo = None
    /\ ret = AttributeError

\* the score of every call that returned one is max(0, 100 - D)
C21_WhenReturned ==
    (Returned("_calculate_transparency_score") /\ ret # AttributeError)
    => ret = [tag |-> "float", v |-> RInt(IF Deductions(args.official_data, args.red_flags) > 100
                                          THEN 0
                                          ELSE 100 - Deductions(args.official_data, args.red_flags))]

\* C22: every place that computes a participation rate counts a vote as cast iff its
\* value is neither not-voting nor present: the participationRate scrape_official stores
\* with a vote snapshot equals the attendance score the aggregator computes from the same
\* votes.
C22_SameParticipation ==
    Returned("scrape_official")
    => ret.votes_data.participationRate = _calculate_attendance_score(<<ret.votes_data>>)

\* one vote, "present", is stored with a participationRate of 100, while the aggregator's
\* attendance score of the same snapshot is 0
C22_PresentCounted ==
    /\ Returned("scrape_official")
    /\ Len(ret.votes_data.votes) = 1
    /\ ret.votes_data.votes[1].vote = <<"p","r","e","s","e","n","t">>
    /\ ret.votes_data.participationRate = RInt(100)
    /\ _calculate_attendance_score(<<ret.votes_data>>) = RInt(0)

\* C30: an excessive_missed_votes flag never has severity medium: it is emitted only when
\* missedRate >= 0.20, and its severity is high when 0.20 <= missedRate < 0.24 and
\* critical when missedRate >= 0.24.
C30_NeverMedium ==
    (Returned("_detect_attendance_flags") /\ ret # <<>>)
    => LET total == Len(AllVotes(args.votes_data))
           missed == Len(MissedOf(args.votes_data))
       IN  \A i \in 1..Len(ret) :
              ret[i].type = "excessive_missed_votes"
              => /\ ret[i].severity # "medium"
                 /\ 100 * missed >= 20 * total
                 /\ ret[i].severity = "high" <=> 100 * missed < 24 * total
                 /\ ret[i].severity = "critical" <=> 100 * missed >= 24 * total

\* 6 votes missed of 25, a rate of exactly 0.24, are flagged critical
C30_SixOfTwentyFive ==
    /\ Returned("_detect_attendance_flags")
    /\ Len(AllVotes(args.votes_data)) = 25
    /\ Len(MissedOf(args.votes_data)) = 6
    /\ Len(ret) = 1
    /\ ret[1].severity = "critical"

\* an address has been answered by request_magic_link
Answered(e) == auth.answers[e] # None

\* C24: request_magic_link does not reveal whether an email is authorized: the (success,
\* message) result returned for an unauthorized email is the same as the result returned
\* for the authorized admin email whose link was sent successfully, while for the
\* unauthorized email no token is stored and no email is sent.
C24_SameAnswer ==
    pc = "link"
    => \A u \in 1..Len(Emails), a \in 1..Len(Emails) :
          (/\ ~_is_admin_email(Emails[u]) /\ Answered(u)
           /\ _is_admin_email(Emails[a]) /\ Answered(a) /\ auth.answers[a].email_sent)
          => /\ auth.answers[u].success = auth.answers[a].success
             /\ auth.answers[u].message = auth.answers[a].message
             /\ ~auth.answers[u].token_stored
             /\ ~auth.answers[u].email_sent

\* the admin address and an unauthorized address have both been answered, the admin's
\* link was sent, and the two messages differ
C24_MessagesDiffer ==
    /\ pc = "link"
    /\ Answered(1) /\ auth.answers[1].email_sent
    /\ Answered(3) /\ ~_is_admin_email(Emails[3])
    /\ auth.answers[1].success = auth.answers[3].success
    /\ auth.answers[1].message # auth.answers[3].message

\* what does hold: the unauthorized address is answered with success, and nothing is
\* stored or sent for it
C24_NothingStoredOrSent ==
    pc = "link"
    => /\ \A u \in 1..Len(Emails) :
             (~_is_admin_email(Emails[u]) /\ Answered(u))
             => /\ auth.answers[u].success
                /\ ~auth.answers[u].token_stored
                /\ ~auth.answers[u].email_sent
       /\ auth.outbox <= auth.issued
       /\ \A t \in 1..MaxTokens : t > auth.issued => auth.tokens[t] = "absent"

\* the calls of verify_token that carried token t and ended in the state p
CallsOn(t, p) == { c \in 1..MaxCallers : auth.calls[c].token = t /\ auth.calls[c].pc = p }

\* C25: a magic-link token can be redeemed at most once: over any interleaving of
\* verify_token calls carrying the same token (sequential or concurrent), at most one
\* call creates a session and every other call fails with AuthenticationError.
C25_RedeemedOnce ==
    pc = "login"
    => \A t \in 1..MaxTokens :
          /\ Cardinality(CallsOn(t, "returned")) <= 1
          /\ Cardinality({ s \in 1..MaxCallers : \E c \in CallsOn(t, "returned") : auth.calls[c].session = s }) <= 1

\* two calls carrying token 1 have both returned, each with a session of its own, and
\* both sessions are stored
C25_TwoSessions ==
    /\ pc = "login"
    /\ CallsOn(1, "returned") = {1, 2}
    /\ auth.calls[1].session # auth.calls[2].session
    /\ auth.sessions[auth.calls[1].session] = "stored"
    /\ auth.sessions[auth.calls[2].session] = "stored"

\* what does hold: a call that starts once the token is marked used (or was never
\* stored) fails, so calls made one after the other redeem the token at most once
C25_UsedTokenRefused ==
    [][\A c \in 1..MaxCallers, t \in 1..MaxTokens :
          (pc = "login" /\ auth.calls[c].pc = "idle" /\ auth'.calls[c].token = t /\ auth.tokens[t] # "unused")
          => auth'.calls[c].pc = "raised"]_vars

\* C23: after the logout endpoint (POST /auth/logout) returns success for a valid
\* session, that session is invalidated: every later request carrying the same session
\* token is rejected by verify_session / get_current_admin.
C23_LoggedOutRejected ==
    pc = "login"
    => \A s \in auth.logged_out :
          ~(auth.last.session = s /\ auth.last.endpoint = "admin" /\ auth.last.accepted)

\* session 1 was logged out with success, is still stored, and the admin request that
\* followed with its token was accepted
C23_AcceptedAfterLogout ==
    /\ pc = "login"
    /\ 1 \in auth.logged_out
    /\ auth.sessions[1] = "stored"
    /\ auth.last = [session |-> 1, endpoint |-> "admin", accepted |-> TRUE]

\* what does hold: the logout endpoint leaves every stored session as it was, unless
\* the session had already expired
C23_LogoutKeepsSession ==
    [][\A s \in 1..MaxCallers :
          (pc = "login" /\ auth'.last # auth.last /\ auth'.last.endpoint = "logout" /\ auth.sessions[s] = "stored")
          => auth'.sessions[s] = "stored"]_vars

\* the attempts of a call that succeed: the response is a 2xx with a JSON body
Successful(responses) == { i \in 1..stop_after_attempt : responses[i].kind = "response" /\ responses[i].status < 400 /\ responses[i].body # 0 }

\* the first of a non-empty set of attempts
First(attempts) == CHOOSE i \in attempts : \A j \in attempts : i <= j

\* the attempts, and the JSON of the first successful one
MakeRequestReturns ==
    /\ ret.attempts <= stop_after_attempt
    /\ Successful(args.responses) # {}
       => /\ ret.attempts = First(Successful(args.responses))
          /\ ~IsRaised(ret.result)
          /\ ret.result.body = args.responses[ret.attempts].body
    /\ Successful(args.responses) = {}
       => /\ ret.attempts = stop_after_attempt
          /\ IsRaised(ret.result)

\* C28: BaseScraper._make_request makes at most 3 attempts for one call, returns the JSON
\* of the first successful attempt, and when the last attempt fails it raises
\* RateLimitError if the response status was 429 and ScrapingError for any other failure
\* (HTTP error status, transport error, unexpected error).
C28_RateLimitOrScrapingError ==
    Returned("_make_request")
    => /\ MakeRequestReturns
       /\ Successful(args.responses) = {}
          => ret.result.exc = IF args.responses[stop_after_attempt].status = 429 THEN "RateLimitError" ELSE "ScrapingError"

\* three attempts answered 429: the call raises ScrapingError("Unexpected error")
C28_RateLimitedThrice ==
    /\ Returned("_make_request")
    /\ \A i \in 1..stop_after_attempt : args.responses[i].status = 429
    /\ ret.attempts = stop_after_attempt
    /\ ret.result = ScrapingError("Unexpected error")

\* what does hold: at most 3 attempts, the JSON of the first successful one, and
\* ScrapingError for every failure of the last attempt, a 429 included
C28_AlwaysScrapingError ==
    Returned("_make_request")
    => /\ MakeRequestReturns
       /\ Successful(args.responses) = {} => ret.result.exc = "ScrapingError"

\* C26: in update_all_officials every member is counted exactly once: at every point
\* progress.completed + progress.failed <= progress.total, and when the job reaches status
\* completed, progress.completed + progress.failed = progress.total,
\* result.officialsUpdated = progress.completed and the number of recorded errors equals
\* progress.failed, whatever step of a member's processing (scrape, revalidation,
\* periodic job save) fails.
C26_CountedOnce ==
    (pc = "job" /\ job.progress # None)
    => /\ job.progress.completed + job.progress.failed <= job.progress.total
       /\ job.status = "completed"
          => /\ job.progress.completed + job.progress.failed = job.progress.total
             /\ job.officialsUpdated = job.progress.completed
             /\ job.errors = job.progress.failed

\* ten members, all scraped and revalidated; the periodic save of the tenth failed: the
\* job is completed with 10 completed and 1 failed of 10
C26_CountedTwice ==
    /\ pc = "job"
    /\ job.status = "completed"
    /\ job.progress = JobProgress(10, 10, 1)
    /\ job.officialsUpdated = 10
    /\ job.errors = 1

\* what does hold: a member is counted as completed once, when its scrape has returned,
\* and every failure met while no error has escaped a task is recorded
C26_CompletedOnce ==
    (pc = "job" /\ job.progress # None)
    => /\ job.officialsUpdated = job.progress.completed
       /\ job.progress.completed <= job.progress.total
       /\ job.progress.completed + job.waiting + job.scraping <= job.progress.total
       /\ ~job.escaped => job.errors = job.progress.failed

\* the order of the statuses of a job
StatusRank(status) == IF status \in {"missing", "pending"} THEN 0 ELSE IF status = "running" THEN 1 ELSE 2

\* a member task has started
MemberStarted == job.progress # None /\ job.waiting < job.progress.total

\* the status of the job object only moves forward, and stays once completed or failed
StatusForward ==
    /\ StatusRank(job'.status) >= StatusRank(job.status)
    /\ StatusRank(job.status) = 2 => job'.status = job.status

\* and so does the status of the stored record
StoredForward ==
    /\ StatusRank(job'.stored) >= StatusRank(job.stored)
    /\ StatusRank(job.stored) = 2 => job'.stored = job.stored

\* the record is stored as running before a member task starts
RunningBeforeScrape == MemberStarted => StatusRank(job.stored) >= 1

\* the job is failed only if the lists were not fetched or an error left a member task
FailedOnlyWhen == job.status = "failed" => (job.progress = None \/ job.escaped)

\* update_all_officials has returned for a job that exists
ReturnedForJob == job.phase = "returned" /\ job.stored # "missing"

\* C27: a job run by update_all_officials moves only pending -> running -> (completed |
\* failed): it is saved as running before any member is scraped, it never goes back to an
\* earlier status, a failure of an individual member never makes the job failed (the job
\* fails only when the member lists cannot be fetched or an error escapes the per-member
\* handler), and whenever update_all_officials returns for an existing job the stored job
\* record has status completed or failed.
C27_OnlyForward ==
    /\ [](pc = "job" => /\ RunningBeforeScrape
                        /\ FailedOnlyWhen
                        /\ ReturnedForJob => job.stored \in {"completed", "failed"})
    /\ [][pc = "job" => (StatusForward /\ StoredForward)]_vars

\* update_all_officials has returned with the job failed, and the stored record says
\* running: a periodic save that was started before the job failed has landed after
\* the final save
C27_StaleRunning ==
    /\ pc = "job"
    /\ job.phase = "returned"
    /\ job.status = "failed"
    /\ job.escaped
    /\ job.stored = "running"

\* what does hold: the job object moves only forward, the record is running before any
\* member starts, a member's failure does not fail the job, and the stored record moves
\* only forward and is completed or failed on return as long as no error has left a
\* member task
C27_ForwardUnlessEscaped ==
    /\ [](pc = "job" => /\ RunningBeforeScrape
                        /\ FailedOnlyWhen
                        /\ (ReturnedForJob /\ ~job.escaped) => job.stored \in {"completed", "failed"})
    /\ [][pc = "job" => (StatusForward /\ (~job'.escaped => StoredForward))]_vars

\* C29: during update_all_officials, at no point are more than MAX_CONCURRENT_SCRAPES
\* members being processed (scrape_official plus revalidation in flight) at the same
\* time, for any number of members and any interleaving, and every member is
\* nevertheless eventually processed.
C29_BoundedAndProcessed ==
    /\ [](pc = "job" => InFlight(job) <= MAX_CONCURRENT_SCRAPES)
    /\ (pc = "job" /\ job.progress # None) ~> (job.waiting = 0 /\ InFlight(job) = 0)

\* eleven members: ten hold the semaphore, the eleventh waits
C29_TenInFlightOneWaiting ==
    /\ pc = "job"
    /\ job.progress # None
    /\ job.progress.total = MAX_CONCURRENT_SCRAPES + 1
    /\ InFlight(job) = MAX_CONCURRENT_SCRAPES
    /\ job.waiting = 1
=============================================================================
